---- MODULE Spec2Model ----
(***************************************************************************)
(* Model of csv_vault/csv_to_obsidian_contacts.py: the frontmatter codec,  *)
(* the merge policy and the per-row synchronisation pipeline.              *)
(*                                                                         *)
(* Text is a sequence of symbols.  A symbol is one character ("a", ":",    *)
(* "\n", ...) or a word: a run of letters, digits or underscores that no   *)
(* function of the program looks inside (a field name such as "Mail_Pro",  *)
(* a surname such as "dupont").  Every string function of the program is   *)
(* modelled on these sequences by what it does to the characters.          *)
(***************************************************************************)
EXTENDS Integers, Sequences, FiniteSets, TLC

VARIABLES
    c_pc, c_meta, c_body, c_text, c_out,                      \* codec harness
    m_pc, m_existing, m_new, m_preserve, m_overwrite, m_out,  \* merge harness
    m_again,                       \* the merged mapping merged with the incoming one again
    p_pc, p_run, p_i,              \* pipeline: position, run number, row number
    p_store, p_dir_exists,         \* the output directory: file name -> text
    p_rows, p_cfg, p_args,         \* the CSV rows, the mapping, the command line
    p_by_id, p_by_email,           \* existing_by_id, existing_by_email
    p_created, p_updated, p_skipped, p_seq_counter,
    p_log,                         \* what the current run did with each row
    p_snaps,                       \* the store as each finished run left it
    p_failures,                    \* writes that raised OSError so far
    p_store0,                      \* the output directory before the first run
    p_exit,                        \* exit status of the last process (-1: none yet)
    p_order,                       \* the order in which the last scan met the documents
    p_unreadable,                  \* documents read_text fails on: name -> exception
    p_preview,                     \* what the preview reported, once the user runs for real
    b_pc, b_row, b_cfg, b_cands,   \* contact harness: the call and its arguments
    b_value, b_contact             \* what select_first_present / build_contact returned

codecVars == <<c_pc, c_meta, c_body, c_text, c_out>>
mergeVars == <<m_pc, m_existing, m_new, m_preserve, m_overwrite, m_out, m_again>>
pipeVars == <<p_pc, p_run, p_i, p_store, p_dir_exists, p_rows, p_cfg, p_args, p_by_id,
              p_by_email, p_created, p_updated, p_skipped, p_seq_counter, p_log, p_snaps,
              p_failures, p_store0, p_exit, p_order, p_unreadable, p_preview>>
contactVars == <<b_pc, b_row, b_cfg, b_cands, b_value, b_contact>>
vars == <<codecVars, mergeVars, pipeVars, contactVars>>

----------------------------------------------------------------------------
(* Bounds *)

MaxScalarLen == 3
MaxListLen == 2
MaxRuns == 3
MaxRows == 2
MaxWriteFailures == 1
MaxFields == 2
MaxUnreadable == 1

----------------------------------------------------------------------------
(* Symbols *)

Digits == {"0", "1", "2", "3", "4", "5", "6", "7", "8", "9"}

\* single letters and letter-only words used by the model
LetterWords == {"a", "b", "x", "h", "fr", "dupont", "martin", "sco", "contact",
                "true", "false", "A", "B", "X", "H", "FR", "DUPONT", "MARTIN",
                "SCO", "T", "Z", "True",
                "ha", "hb", "hc", "hd", "he", "hf", "hg", "hh", "hi"}

\* field names: atomic words of letters, digits and underscores
PlainFieldNames == {"Nom", "Tel_Mobile", "Tel_Fixe", "Mail_Pro", "Mail_Perso",
                    "organisation", "id_mslist", "groupes", "type",
                    "source_updated", "notes", "custom_tags", "email",
                    "Organisation", "Noms", "Emails", "Prenom"}
AccentFieldNames == {"Prénom"}

\* symbols that SAFE_RE's class [A-Za-z0-9_-] accepts
SafeSyms == Digits \cup LetterWords \cup PlainFieldNames \cup {"_", "-"}

\* str.strip() removes these (the whitespace of the model's alphabet)
Whitespace == {" ", "\n"}

----------------------------------------------------------------------------
(* Python string primitives on symbol sequences *)

SetMin(S) == CHOOSE m \in S : \A o \in S : m <= o
SetMax(S) == CHOOSE m \in S : \A o \in S : m >= o

Tail2(s, n) == SubSeq(s, n + 1, Len(s))           \* s[n:]

StartsWith(s, p) == Len(s) >= Len(p) /\ SubSeq(s, 1, Len(p)) = p
EndsWith(s, p) == Len(s) >= Len(p) /\ SubSeq(s, Len(s) - Len(p) + 1, Len(s)) = p

\* s.strip(chars): drop the leading and trailing symbols that are in cs
StripSet(s, cs) ==
    LET keep == {i \in 1..Len(s) : s[i] \notin cs}
    IN IF keep = {} THEN <<>> ELSE SubSeq(s, SetMin(keep), SetMax(keep))

Strip(s) == StripSet(s, Whitespace)

LStrip(s) ==
    LET keep == {i \in 1..Len(s) : s[i] \notin Whitespace}
    IN IF keep = {} THEN <<>> ELSE SubSeq(s, SetMin(keep), Len(s))

\* s.find(p) + 1, searching from position from; 0 when absent
IndexOf(s, p, from) ==
    LET hits == {i \in from..(Len(s) - Len(p) + 1) : SubSeq(s, i, i + Len(p) - 1) = p}
    IN IF hits = {} THEN 0 ELSE SetMin(hits)

Contains(s, p) == IndexOf(s, p, 1) # 0

\* s.split(sep): every occurrence
RECURSIVE SplitAll(_, _)
SplitAll(s, sep) ==
    LET i == IndexOf(s, sep, 1)
    IN IF i = 0 THEN <<s>>
       ELSE <<SubSeq(s, 1, i - 1)>> \o SplitAll(Tail2(s, i + Len(sep) - 1), sep)

\* s.splitlines(): no trailing empty line, none for the empty string
RECURSIVE SplitLines(_)
SplitLines(s) ==
    IF s = <<>> THEN <<>>
    ELSE LET i == IndexOf(s, <<"\n">>, 1)
         IN IF i = 0 THEN <<s>>
            ELSE <<SubSeq(s, 1, i - 1)>> \o SplitLines(Tail2(s, i))

\* s.replace(a, b) for a one-symbol a
RECURSIVE Replace(_, _, _)
Replace(s, a, b) ==
    IF s = <<>> THEN <<>>
    ELSE (IF s[1] = a THEN b ELSE <<s[1]>>) \o Replace(Tail(s), a, b)

\* '\n'.join(lines)
RECURSIVE JoinLines(_)
JoinLines(ls) ==
    IF ls = <<>> THEN <<>>
    ELSE IF Len(ls) = 1 THEN ls[1]
    ELSE ls[1] \o <<"\n">> \o JoinLines(Tail(ls))

----------------------------------------------------------------------------
(* Values and metadata mappings *)

\* a Value is a string or a list of strings; items holds the string(s)
Scalar(s) == [kind |-> "scalar", items |-> <<s>>]
ListV(xs) == [kind |-> "list", items |-> xs]
IsList(v) == v.kind = "list"
Str(v) == v.items[1]

\* a dict is a sequence of entries with distinct keys, in insertion order
Keys(d) == {d[i].k : i \in 1..Len(d)}
Has(d, k) == \E i \in 1..Len(d) : d[i].k = k
Get(d, k) == d[CHOOSE i \in 1..Len(d) : d[i].k = k].v
\* d[k] = v: in place when the key is there, appended otherwise
Put(d, k, v) ==
    IF Has(d, k)
    THEN [i \in 1..Len(d) |-> IF d[i].k = k THEN [k |-> k, v |-> v] ELSE d[i]]
    ELSE Append(d, [k |-> k, v |-> v])

----------------------------------------------------------------------------
(* Frontmatter codec *)

IsDigitStr(s) == Len(s) > 0 /\ \A i \in 1..Len(s) : s[i] \in Digits

\* SAFE_RE.match(s): '$' also matches before one trailing newline
SAFE_RE(s) ==
    LET core == IF Len(s) > 0 /\ s[Len(s)] = "\n" THEN SubSeq(s, 1, Len(s) - 1) ELSE s
    IN Len(core) > 0 /\ \A i \in 1..Len(core) : core[i] \in SafeSyms

quote_scalar(s) ==
    IF s = <<>> THEN <<"\"", "\"">>
    ELSE IF IsDigitStr(s) \/ s[1] = "+" \/ (Len(s) > 1 /\ s[1] = "0")
         THEN <<"\"">> \o s \o <<"\"">>
    ELSE IF SAFE_RE(s) THEN s
    ELSE <<"\"">> \o Replace(s, "\"", <<"\\", "\"">>) \o <<"\"">>

\* the lines dump_frontmatter emits for one entry
EntryLines(e) ==
    IF IsList(e.v)
    THEN IF e.v.items = <<>>
         THEN <<e.k \o <<":", " ", "[", "]">>>>
         ELSE <<e.k \o <<":">>>> \o
              [i \in 1..Len(e.v.items) |->
                  <<" ", " ", "-", " ">> \o quote_scalar(e.v.items[i])]
    ELSE <<e.k \o <<":", " ">> \o quote_scalar(Str(e.v))>>

RECURSIVE AllEntryLines(_)
AllEntryLines(d) ==
    IF d = <<>> THEN <<>> ELSE EntryLines(d[1]) \o AllEntryLines(Tail(d))

Delim == <<"-", "-", "-">>

dump_frontmatter(d) ==
    JoinLines(<<Delim>> \o AllEntryLines(d) \o <<Delim>>) \o <<"\n">>

\* item text of a block-list line: strip, then strip('"'), then strip("'")
ItemText(s) == StripSet(StripSet(Strip(s), {"\""}), {"'"})

\* the "- item" lines that follow a bare "key:" line, from line j on:
\* the items and the index of the first line that is not one
RECURSIVE BlockItems(_, _, _)
BlockItems(lines, j, items) ==
    IF j > Len(lines) THEN [items |-> items, j |-> j]
    ELSE LET nxt == lines[j]
         IN IF StartsWith(nxt, <<" ", " ", "-", " ">>)
            THEN BlockItems(lines, j + 1, Append(items, ItemText(Tail2(nxt, 4))))
            ELSE IF StartsWith(Strip(nxt), <<"-", " ">>)
            THEN BlockItems(lines, j + 1, Append(items, ItemText(Tail2(Strip(nxt), 2))))
            ELSE [items |-> items, j |-> j]

IsQuoted(val) ==
    \/ StartsWith(val, <<"\"">>) /\ EndsWith(val, <<"\"">>)
    \/ StartsWith(val, <<"'">>) /\ EndsWith(val, <<"'">>)

\* the value of a "key: value" line whose value is not empty
InlineValue(val) ==
    IF StartsWith(val, <<"[">>) /\ EndsWith(val, <<"]">>)
    THEN LET inner == Strip(SubSeq(val, 2, Len(val) - 1))
         IN IF inner # <<>>
            THEN LET parts == SplitAll(inner, <<",">>)
                 IN ListV([i \in 1..Len(parts) |-> ItemText(parts[i])])
            ELSE ListV(<<>>)
    ELSE IF IsQuoted(val) THEN Scalar(SubSeq(val, 2, Len(val) - 1))
    ELSE Scalar(val)

\* the while loop of read_frontmatter over the lines of the block
RECURSIVE ParseLines(_, _, _)
ParseLines(lines, i, data) ==
    IF i > Len(lines) THEN data
    ELSE LET line == lines[i]
         IN IF Strip(line) = <<>> THEN ParseLines(lines, i + 1, data)
            ELSE IF Contains(line, <<":">>) /\ ~StartsWith(LStrip(line), <<"-", " ">>)
            THEN LET c == IndexOf(line, <<":">>, 1)
                     key == Strip(SubSeq(line, 1, c - 1))
                     val == Strip(Tail2(line, c))
                 IN IF val = <<>>
                    THEN LET b == BlockItems(lines, i + 1, <<>>)
                         IN IF b.items # <<>>
                            THEN ParseLines(lines, b.j, Put(data, key, ListV(b.items)))
                            ELSE ParseLines(lines, i + 1, Put(data, key, Scalar(<<>>)))
                    ELSE ParseLines(lines, i + 1, Put(data, key, InlineValue(val)))
            ELSE ParseLines(lines, i + 1, data)

read_frontmatter(md_text) ==
    IF ~StartsWith(md_text, Delim) THEN [fm |-> <<>>, body |-> md_text]
    ELSE LET close == IndexOf(md_text, Delim, 4)
         IN IF close = 0 THEN [fm |-> <<>>, body |-> md_text]
            ELSE [fm |-> ParseLines(SplitLines(SubSeq(md_text, 4, close - 1)), 1, <<>>),
                  body |-> Tail2(md_text, close + 2)]

----------------------------------------------------------------------------
(* Merge policy *)

\* is_empty of merge_frontmatter: a blank string or a list of no items
is_empty(v) == IF IsList(v) THEN Len(v.items) = 0 ELSE Strip(Str(v)) = <<>>

TakesIncoming_OverwriteFirst(existing, k, preserve_keys, overwrite_keys) ==
    \/ k \in overwrite_keys
    \/ ~Has(existing, k)
    \/ (k \notin preserve_keys /\ is_empty(Get(existing, k)))

TakesIncoming_FillOnly(existing, k, preserve_keys, overwrite_keys) ==
    /\ ~(k \in preserve_keys /\ Has(existing, k))
    /\ (~Has(existing, k) \/ is_empty(Get(existing, k)))

TakesIncoming_NoFill(existing, k, preserve_keys, overwrite_keys) ==
    /\ ~(k \in preserve_keys /\ Has(existing, k))
    /\ (k \in overwrite_keys \/ ~Has(existing, k))

\* the two tests of the loop body: whether out[k] = v is executed for key k
TakesIncoming(existing, k, preserve_keys, overwrite_keys) ==
    /\ ~(k \in preserve_keys /\ Has(existing, k))
    /\ (k \in overwrite_keys \/ ~Has(existing, k) \/ is_empty(Get(existing, k)))

\* the loop of merge_frontmatter over newdata.items(), from entry i on
RECURSIVE MergeLoop(_, _, _, _, _, _)
MergeLoop(existing, newdata, i, out, preserve_keys, overwrite_keys) ==
    IF i > Len(newdata) THEN out
    ELSE LET e == newdata[i]
         IN MergeLoop(existing, newdata, i + 1,
                      IF TakesIncoming(existing, e.k, preserve_keys, overwrite_keys)
                      THEN Put(out, e.k, e.v) ELSE out,
                      preserve_keys, overwrite_keys)

merge_frontmatter_FromNew(existing, newdata, preserve_keys, overwrite_keys) ==
    MergeLoop(existing, newdata, 1, <<>>, preserve_keys, overwrite_keys)

merge_frontmatter(existing, newdata, preserve_keys, overwrite_keys) ==
    MergeLoop(existing, newdata, 1, existing, preserve_keys, overwrite_keys)

----------------------------------------------------------------------------
(* Field names and their normalisation *)

\* what _norm_key_for_match makes of one symbol: accents folded, lower
\* case, everything but a-z and 0-9 dropped, spelled in characters
NormSym(w) ==
    CASE w = "Nom" -> <<"n", "o", "m">>
      [] w = "Noms" -> <<"n", "o", "m", "s">>
      [] w \in {"Prénom", "Prenom"} -> <<"p", "r", "e", "n", "o", "m">>
      [] w = "Tel_Mobile" -> <<"t", "e", "l", "m", "o", "b", "i", "l", "e">>
      [] w = "Tel_Fixe" -> <<"t", "e", "l", "f", "i", "x", "e">>
      [] w = "Mail_Pro" -> <<"m", "a", "i", "l", "p", "r", "o">>
      [] w = "Mail_Perso" -> <<"m", "a", "i", "l", "p", "e", "r", "s", "o">>
      [] w = "organisation" -> <<"o", "r", "g", "a", "n", "i", "s", "a", "t", "i", "o", "n">>
      [] w = "Organisation" -> <<"o", "r", "g", "a", "n", "i", "s", "a", "t", "i", "o", "n">>
      [] w = "id_mslist" -> <<"i", "d", "m", "s", "l", "i", "s", "t">>
      [] w = "groupes" -> <<"g", "r", "o", "u", "p", "e", "s">>
      [] w = "type" -> <<"t", "y", "p", "e">>
      [] w = "source_updated" -> <<"s", "o", "u", "r", "c", "e", "u", "p", "d", "a", "t", "e", "d">>
      [] w = "notes" -> <<"n", "o", "t", "e", "s">>
      [] w = "custom_tags" -> <<"c", "u", "s", "t", "o", "m", "t", "a", "g", "s">>
      [] w = "email" -> <<"e", "m", "a", "i", "l">>
      [] w = "Emails" -> <<"e", "m", "a", "i", "l", "s">>
      [] w = "contact" -> <<"c", "o", "n", "t", "a", "c", "t">>
      [] w = "true" -> <<"t", "r", "u", "e">>
      [] w = "false" -> <<"f", "a", "l", "s", "e">>
      [] w \in {"a", "A"} -> <<"a">>
      [] w \in {"b", "B"} -> <<"b">>
      [] w \in {"x", "X"} -> <<"x">>
      [] w \in {"h", "H"} -> <<"h">>
      [] w \in {"fr", "FR"} -> <<"f", "r">>
      [] w \in {"dupont", "DUPONT"} -> <<"d", "u", "p", "o", "n", "t">>
      [] w \in {"martin", "MARTIN"} -> <<"m", "a", "r", "t", "i", "n">>
      [] w \in {"sco", "SCO"} -> <<"s", "c", "o">>
      [] w = "True" -> <<"t", "r", "u", "e">>
      [] w = "ha" -> <<"h", "a">>
      [] w = "hb" -> <<"h", "b">>
      [] w = "hc" -> <<"h", "c">>
      [] w = "hd" -> <<"h", "d">>
      [] w = "he" -> <<"h", "e">>
      [] w = "hf" -> <<"h", "f">>
      [] w = "hg" -> <<"h", "g">>
      [] w = "hh" -> <<"h", "h">>
      [] w = "hi" -> <<"h", "i">>
      [] w = "T" -> <<"t">>
      [] w = "Z" -> <<"z">>
      [] OTHER -> IF w \in Digits THEN <<w>> ELSE <<>>

RECURSIVE norm_key_for_match(_)
norm_key_for_match(name) ==
    IF name = <<>> THEN <<>>
    ELSE NormSym(name[1]) \o norm_key_for_match(Tail(name))

singularize_norm(s) ==
    IF s # <<>> /\ s[Len(s)] = "s" THEN SubSeq(s, 1, Len(s) - 1) ELSE s

\* str.upper() and str.lower() of one symbol (letter words; the rest of
\* the alphabet has no case)
UpperSym(w) ==
    CASE w = "a" -> "A" [] w = "b" -> "B" [] w = "x" -> "X" [] w = "h" -> "H"
      [] w = "fr" -> "FR" [] w = "dupont" -> "DUPONT" [] w = "martin" -> "MARTIN"
      [] w = "sco" -> "SCO"
      [] OTHER -> w

LowerSym(w) ==
    CASE w = "A" -> "a" [] w = "B" -> "b" [] w = "X" -> "x" [] w = "H" -> "h"
      [] w = "FR" -> "fr" [] w = "DUPONT" -> "dupont" [] w = "MARTIN" -> "martin"
      [] w = "SCO" -> "sco"
      [] OTHER -> w

Upper(s) == [i \in 1..Len(s) |-> UpperSym(s[i])]
Lower(s) == [i \in 1..Len(s) |-> LowerSym(s[i])]

\* the canonical fields, in the order build_contact fills them
LogicalFields == <<
    <<"id_mslist">>, <<"Nom">>, <<"Prénom">>, <<"Tel_Mobile">>, <<"Tel_Fixe">>,
    <<"Mail_Pro">>, <<"Mail_Perso">>, <<"organisation">>, <<"groupes">>, <<"type">> >>

DEFAULT_PRESERVE_KEYS == {<<"notes">>, <<"custom_tags">>}

DEFAULT_OVERWRITE_KEYS == {
    <<"Nom">>, <<"Prénom">>, <<"Tel_Mobile">>, <<"Tel_Fixe">>, <<"Mail_Pro">>, <<"Mail_Perso">>,
    <<"organisation">>, <<"groupes">>, <<"type">>, <<"id_mslist">>, <<"source_updated">>}

DEFAULT_REQUIRED_FIELDS == <<
    <<"Nom">>, <<"Prénom">>, <<"Tel_Mobile">>, <<"Tel_Fixe">>, <<"Mail_Pro">>,
    <<"Mail_Perso">>, <<"organisation">> >>

----------------------------------------------------------------------------
(* Building a contact from a row *)

BoolV(b) == [kind |-> "bool", items |-> <<IF b THEN <<"true">> ELSE <<"false">> >>]
IsStr(v) == v.kind = "scalar"

\* the row header norm_to_orig maps key to: the last header whose
\* normalised name, or its singular, is key (later assignments win)
NormToOrig(row, key) ==
    LET hits == {i \in 1..Len(row) :
                    \/ norm_key_for_match(row[i].k) = key
                    \/ singularize_norm(norm_key_for_match(row[i].k)) = key}
    IN IF hits = {} THEN <<>> ELSE <<row[SetMax(hits)].k>>

\* the value one candidate yields, as a sequence of at most one string
CandidateValue(row, c) ==
    IF Has(row, c) /\ Strip(Str(Get(row, c))) # <<>> THEN <<Str(Get(row, c))>>
    ELSE LET cn == norm_key_for_match(c)
             o1 == NormToOrig(row, cn)
             o2 == NormToOrig(row, singularize_norm(cn))
         IN IF o1 # <<>> /\ Strip(Str(Get(row, o1[1]))) # <<>> THEN <<Str(Get(row, o1[1]))>>
            ELSE IF o2 # <<>> /\ Strip(Str(Get(row, o2[1]))) # <<>> THEN <<Str(Get(row, o2[1]))>>
            ELSE <<>>

RECURSIVE select_first_present(_, _)
select_first_present(row, candidates) ==
    IF candidates = <<>> THEN <<>>
    ELSE LET v == CandidateValue(row, candidates[1])
         IN IF v # <<>> THEN v[1] ELSE select_first_present(row, Tail(candidates))

\* drop the strings that strip to nothing, strip the others
RECURSIVE StripNonEmpty(_)
StripNonEmpty(xs) ==
    IF xs = <<>> THEN <<>>
    ELSE (IF Strip(xs[1]) = <<>> THEN <<>> ELSE <<Strip(xs[1])>>) \o StripNonEmpty(Tail(xs))

\* the separators among the characters of the model (the two bullet
\* characters of seps are not among them)
ListSeparators == {";", ",", "|"}

split_list(s) ==
    StripNonEmpty(SplitAll([i \in 1..Len(s) |-> IF s[i] \in ListSeparators THEN "," ELSE s[i]],
                           <<",">>))

\* one element of a JSON list: a string without escapes, or an integer
JsonElementOk(e) ==
    \/ /\ Len(e) >= 2 /\ e[1] = "\"" /\ e[Len(e)] = "\""
       /\ \A i \in 2..(Len(e) - 1) : e[i] \notin {"\"", "\\", "\n"}
    \/ /\ IsDigitStr(e) /\ (Len(e) = 1 \/ e[1] # "0")

JsonElement(e) == IF e[1] = "\"" THEN SubSeq(e, 2, Len(e) - 1) ELSE e

\* parse_maybe_list: the list a JSON list literal denotes, in a one-element
\* sequence; the empty sequence for None.  (JSON strings of the model's
\* inputs hold no comma and no escape.)
parse_maybe_list(val) ==
    LET s == Strip(val)
    IN IF StartsWith(s, <<"[">>) /\ EndsWith(s, <<"]">>) /\ Len(s) >= 2
       THEN LET inner == Strip(SubSeq(s, 2, Len(s) - 1))
                parts == SplitAll(inner, <<",">>)
            IN IF inner = <<>> THEN << <<>> >>
               ELSE IF \A i \in 1..Len(parts) : JsonElementOk(Strip(parts[i]))
               THEN << [i \in 1..Len(parts) |-> JsonElement(Strip(parts[i]))] >>
               ELSE <<>>
       ELSE <<>>

is_bool_field(name, cfg) ==
    LET n == norm_key_for_match(name)
    IN \/ \E b \in cfg.boolean_fields : norm_key_for_match(b) = n
       \/ StartsWith(n, <<"i", "s">>) \/ StartsWith(n, <<"h", "a", "s">>)
       \/ Contains(n, <<"a", "c", "t", "i", "f">>)
       \/ Contains(n, <<"a", "c", "t", "i", "v", "e">>)
       \/ Contains(n, <<"e", "n", "a", "b", "l", "e", "d">>)
       \/ Contains(n, <<"i", "n", "s", "c", "r", "i", "t">>)

\* the tokens the words of the model spell (vrai, yes, oui, faux, no, non
\* are not among them)
TrueTokens == {<<"true">>, <<"1">>}
FalseTokens == {<<"false">>, <<"0">>}

coerce_bool_if_needed(name, val, cfg) ==
    IF ~is_bool_field(name, cfg) THEN Scalar(val)
    ELSE IF Lower(Strip(val)) \in TrueTokens THEN BoolV(TRUE)
    ELSE IF Lower(Strip(val)) \in FalseTokens THEN BoolV(FALSE)
    ELSE Scalar(val)

\* candidates(field_key) of build_contact
Candidates(cfg, field) ==
    IF Has(cfg.project_aliases, field) THEN Get(cfg.project_aliases, field).items
    ELSE IF Has(cfg.aliases, field) THEN Get(cfg.aliases, field).items
    ELSE <<field>>

is_list_field(name, cfg) ==
    \E k \in cfg.list_fields : norm_key_for_match(k) = norm_key_for_match(name)

\* a list value: the parsed JSON list if there is one, else the split text
ListValue(parsed, val) ==
    IF parsed # <<>> THEN ListV(StripNonEmpty(parsed[1])) ELSE ListV(split_list(val))

\* the value build_contact stores for a canonical field whose cell is val
LogicalOf(val, cfg, logical) ==
    IF logical \in cfg.list_fields THEN ListValue(parse_maybe_list(val), val)
    ELSE IF logical = <<"type">> /\ val = <<>> THEN Scalar(<<"contact">>)
    ELSE Scalar(val)

LogicalValue(row, cfg, logical) ==
    LogicalOf(select_first_present(row, Candidates(cfg, logical)), cfg, logical)

\* the value build_contact stores for an extra (unmapped) field
ExtraOf(parsed, name, v, cfg) ==
    IF parsed # <<>> \/ is_list_field(name, cfg) THEN ListValue(parsed, v)
    ELSE coerce_bool_if_needed(name, v, cfg)

ExtraValue(name, v, cfg) == ExtraOf(parse_maybe_list(v), name, v, cfg)

\* extras policy "all": the loop over row.items(), from entry i on
RECURSIVE ExtrasAll(_, _, _, _, _)
ExtrasAll(row, cfg, i, existing_norm, contact) ==
    IF i > Len(row) THEN contact
    ELSE LET k == row[i].k
         IN IF (\E f \in 1..Len(LogicalFields) : \E j \in 1..Len(Candidates(cfg, LogicalFields[f])) :
                    Candidates(cfg, LogicalFields[f])[j] = k)
               \/ norm_key_for_match(k) \in existing_norm
            THEN ExtrasAll(row, cfg, i + 1, existing_norm, contact)
            ELSE ExtrasAll(row, cfg, i + 1, existing_norm,
                           Put(contact, k, ExtraValue(k, Str(row[i].v), cfg)))

\* extras policy given as a list of names: the loop over the names
RECURSIVE ExtrasListed(_, _, _, _)
ExtrasListed(row, cfg, names, contact) ==
    IF names = <<>> THEN contact
    ELSE LET name == names[1]
         IN IF Has(row, name)
               /\ norm_key_for_match(name) \notin {norm_key_for_match(k) : k \in Keys(contact)}
            THEN ExtrasListed(row, cfg, Tail(names),
                              Put(contact, name, ExtraValue(name, Str(Get(row, name)), cfg)))
            ELSE ExtrasListed(row, cfg, Tail(names), contact)

\* the extras added to the canonical fields
WithExtras(row, cfg, base) ==
    IF cfg.extras = Scalar(<<"all">>)
    THEN ExtrasAll(row, cfg, 1, {norm_key_for_match(k) : k \in Keys(base)}, base)
    ELSE IF IsList(cfg.extras) THEN ExtrasListed(row, cfg, cfg.extras.items, base)
    ELSE base

build_contact(row, cfg) ==
    WithExtras(row, cfg, [i \in 1..Len(LogicalFields) |->
                            [k |-> LogicalFields[i],
                             v |-> LogicalValue(row, cfg, LogicalFields[i])]])

----------------------------------------------------------------------------
(* Identifiers, e-mail addresses, file names *)

DigitOf == <<"0", "1", "2", "3", "4", "5", "6", "7", "8", "9">>

\* str(n) of a natural number
RECURSIVE NatToStr(_)
NatToStr(n) ==
    IF n < 10 THEN <<DigitOf[n + 1]>> ELSE NatToStr(n \div 10) \o <<DigitOf[(n % 10) + 1]>>

\* the digits of int(s) for a digit string s: leading zeros dropped
RECURSIVE DropLeadingZeros(_)
DropLeadingZeros(s) ==
    IF Len(s) > 1 /\ s[1] = "0" THEN DropLeadingZeros(Tail(s)) ELSE s

RECURSIVE ZeroPad(_, _)
ZeroPad(s, width) == IF Len(s) >= width THEN s ELSE ZeroPad(<<"0">> \o s, width)

\* what int(s) accepts: an optional sign, digits, single underscores
\* between digits
IntLiteral(s) ==
    LET body == IF s # <<>> /\ s[1] \in {"+", "-"} THEN Tail(s) ELSE s
    IN /\ body # <<>>
       /\ body[1] \in Digits /\ body[Len(body)] \in Digits
       /\ \A i \in 1..Len(body) : body[i] \in Digits \cup {"_"}
       /\ \A i \in 1..(Len(body) - 1) : ~(body[i] = "_" /\ body[i + 1] = "_")

\* f"{int(s):0{pad}d}"
FormatInt(s, pad) ==
    LET body == IF s[1] \in {"+", "-"} THEN Tail(s) ELSE s
        mag == DropLeadingZeros(SelectSeq(body, LAMBDA c : c # "_"))
    IN IF s[1] = "-" /\ mag # <<"0">>
       THEN <<"-">> \o ZeroPad(mag, pad - 1)
       ELSE ZeroPad(mag, pad)

\* runs of dashes and whitespace become one "_" (slugify's '-', then '_')
RECURSIVE CollapseDashes(_)
CollapseDashes(s) ==
    IF s = <<>> THEN <<>>
    ELSE IF s[1] \in Whitespace \cup {"-"}
         THEN IF Len(s) > 1 /\ s[2] \in Whitespace \cup {"-"}
              THEN CollapseDashes(Tail(s))
              ELSE <<"_">> \o CollapseDashes(Tail(s))
         ELSE <<s[1]>> \o CollapseDashes(Tail(s))

\* symbols of the class \w: letters, digits, underscore
WordSyms == SafeSyms \ {"-"}

make_id_prefix(s) ==
    IF s = <<>> THEN <<>>
    ELSE Upper(CollapseDashes(Strip(
            SelectSeq(s, LAMBDA c : c \in WordSyms \cup Whitespace \cup {"-"}))))

format_composed_id_Verbatim(prefix, raw_id, pad) ==
    LET pfx == make_id_prefix(prefix)
        s == Strip(raw_id)
    IN IF raw_id = <<>> THEN pfx
       ELSE IF pfx # <<>> THEN pfx \o <<"-">> \o s ELSE s

format_composed_id(prefix, raw_id, pad) ==
    LET pfx == make_id_prefix(prefix)
        s == Strip(raw_id)
    IN IF raw_id = <<>> THEN pfx
       ELSE IF IntLiteral(s)
            THEN IF pfx # <<>> THEN pfx \o <<"-">> \o FormatInt(s, pad) ELSE FormatInt(s, pad)
            ELSE IF pfx # <<>> THEN pfx \o <<"-">> \o s ELSE s

\* EMAIL_RE: [A-Za-z0-9._%+-]+ @ [A-Za-z0-9.-]+ \. [A-Za-z]{2,}
EmailLocalSyms == SafeSyms \cup {".", "%", "+"}
EmailDomainSyms == Digits \cup LetterWords \cup {".", "-"}

RECURSIVE LetterCount(_)
LetterCount(s) ==
    IF s = <<>> THEN 0 ELSE Len(NormSym(s[1])) + LetterCount(Tail(s))

EMAIL_RE(s) ==
    LET at == IndexOf(s, <<"@">>, 1)
    IN /\ at > 1
       /\ \A i \in 1..(at - 1) : s[i] \in EmailLocalSyms
       /\ \E dot \in (at + 2)..(Len(s) - 1) :
             /\ s[dot] = "."
             /\ \A i \in (at + 1)..(dot - 1) : s[i] \in EmailDomainSyms
             /\ \A i \in (dot + 1)..Len(s) : s[i] \in LetterWords
             /\ LetterCount(SubSeq(s, dot + 1, Len(s))) >= 2

is_valid_email(s) == s # <<>> /\ EMAIL_RE(Strip(s))

\* repr of a list of plain strings, as str(list) prints it
RECURSIVE ReprItems(_)
ReprItems(xs) ==
    IF xs = <<>> THEN <<>>
    ELSE <<"'">> \o xs[1] \o <<"'">> \o
         (IF Len(xs) > 1 THEN <<",", " ">> ELSE <<>>) \o ReprItems(Tail(xs))

\* str(v or ''): the text of a value, nothing for a falsy one
PyStr(v) ==
    IF v.kind = "scalar" THEN v.items[1]
    ELSE IF v.kind = "list"
         THEN IF v.items = <<>> THEN <<>> ELSE <<"[">> \o ReprItems(v.items) \o <<"]">>
    ELSE IF v.items[1] = <<"true">> THEN <<"True">> ELSE <<>>

\* contact.get(key, '') as text
FieldText(contact, key) == IF Has(contact, key) THEN PyStr(Get(contact, key)) ELSE <<>>

EmailFields == << <<"email">>, <<"Mail_Pro">>, <<"Mail_Perso">>, <<"mail_pro">>, <<"mail_perso">> >>

RECURSIVE FirstValidEmail(_, _)
FirstValidEmail(contact, fields) ==
    IF fields = <<>> THEN <<>>
    ELSE LET candidate == Lower(Strip(FieldText(contact, fields[1])))
         IN IF candidate # <<>> /\ is_valid_email(candidate) THEN candidate
            ELSE FirstValidEmail(contact, Tail(fields))

choose_primary_email_lower(contact) == FirstValidEmail(contact, EmailFields)

\* get_contact_value: the aliases by normalised name, in order
EtabAliasNorms == <<
    <<"e", "t", "a", "b", "l", "i", "s", "s", "e", "m", "e", "n", "t">>,
    <<"o", "r", "g", "a", "n", "i", "s", "a", "t", "i", "o", "n">> >>

RECURSIVE get_contact_value(_, _)
get_contact_value(contact, alias_norms) ==
    IF alias_norms = <<>> THEN <<>>
    ELSE LET hits == {i \in 1..Len(contact) : norm_key_for_match(contact[i].k) = alias_norms[1]}
         IN IF hits # {} /\ IsStr(contact[SetMax(hits)].v)
                        /\ Strip(Str(contact[SetMax(hits)].v)) # <<>>
            THEN Strip(Str(contact[SetMax(hits)].v))
            ELSE get_contact_value(contact, Tail(alias_norms))

ForbiddenInNames == {"\\", "/", ":", "*", "?", "\"", "<", ">", "|"}

\* runs of whitespace become one space
RECURSIVE CollapseSpaces(_)
CollapseSpaces(s) ==
    IF s = <<>> THEN <<>>
    ELSE IF s[1] \in Whitespace
         THEN IF Len(s) > 1 /\ s[2] \in Whitespace
              THEN CollapseSpaces(Tail(s))
              ELSE <<" ">> \o CollapseSpaces(Tail(s))
         ELSE <<s[1]>> \o CollapseSpaces(Tail(s))

sanitize_filename(title) ==
    LET s == Strip(CollapseSpaces(
                [i \in 1..Len(Strip(title)) |->
                    IF Strip(title)[i] \in ForbiddenInNames THEN " " ELSE Strip(title)[i]]))
    IN IF s # <<>> THEN s ELSE <<"contact">>

\* title_human of process_contact_row
TitleHuman(contact) ==
    LET last_name == Strip(FieldText(contact, <<"Nom">>))
        first_name == Strip(FieldText(contact, <<"Prénom">>))
        etab == get_contact_value(contact, EtabAliasNorms)
        head == IF last_name # <<>>
                THEN Upper(last_name) \o (IF first_name # <<>> THEN <<" ">> \o first_name ELSE <<>>)
                ELSE IF first_name # <<>> THEN first_name
                ELSE IF FieldText(contact, <<"organisation">>) # <<>>
                     THEN FieldText(contact, <<"organisation">>)
                ELSE IF FieldText(contact, <<"email">>) # <<>>
                     THEN FieldText(contact, <<"email">>)
                ELSE <<"contact">>
    IN head \o (IF etab # <<>> THEN <<" ", "-", " ">> \o etab ELSE <<>>)

FreeName_NoProbe(files, base, i) == base

\* the first of "base", "base - 2", "base - 3", ... that is no file
RECURSIVE FreeName(_, _, _)
FreeName(files, base, i) ==
    LET name == IF i = 1 THEN base ELSE base \o <<" ", "-", " ">> \o NatToStr(i)
    IN IF name \in files THEN FreeName(files, base, i + 1) ELSE name

\* normalize_phone
normalize_phone(p) ==
    LET s0 == SelectSeq(p, LAMBDA c : c \in Digits \cup {"+"})
        s1 == IF StartsWith(s0, <<"0", "0">>) THEN <<"+">> \o Tail2(s0, 2) ELSE s0
    IN IF StartsWith(s1, <<"+", "3", "3">>) /\ Len(s1) \in {12, 13}
       THEN <<"+", "3", "3">> \o
            (IF Len(s1) > 3 /\ s1[4] = "0" THEN Tail2(s1, 4) ELSE Tail2(s1, 3))
       ELSE IF StartsWith(s1, <<"0">>) /\ Len(s1) >= 10 THEN <<"+", "3", "3">> \o Tail(s1)
       ELSE s1

\* datetime.utcnow().isoformat(timespec='seconds') + 'Z' at clock value
\* now: like the real one it holds a colon, so it is written quoted
Timestamp(now) == <<"T">> \o NatToStr(now) \o <<":", "Z">>

FrontmatterOrder == <<
    <<"Nom">>, <<"Prénom">>, <<"Tel_Mobile">>, <<"Tel_Fixe">>, <<"Mail_Pro">>, <<"Mail_Perso">>,
    <<"organisation">>, <<"id_mslist">>, <<"groupes">>, <<"type">> >>

PhoneValue(v, cfg) ==
    IF cfg.normalize_phone_fr /\ IsStr(v) /\ Str(v) # <<>>
    THEN Scalar(normalize_phone(Str(v))) ELSE v

\* the remaining keys of the contact, appended in the contact's order
RECURSIVE RemainingKeys(_, _, _)
RemainingKeys(contact, i, fm) ==
    IF i > Len(contact) THEN fm
    ELSE LET e == contact[i]
         IN IF \/ e.k = <<"src_id_mslist">>
               \/ (e.k \in {<<"email">>, <<"telephone">>} /\ Strip(PyStr(e.v)) = <<>>)
               \/ Has(fm, e.k)
            THEN RemainingKeys(contact, i + 1, fm)
            ELSE RemainingKeys(contact, i + 1, Append(fm, e))

build_frontmatter(contact, cfg, now) ==
    LET fixed == [i \in 1..Len(FrontmatterOrder) |->
                    LET k == FrontmatterOrder[i]
                        v == IF Has(contact, k) THEN Get(contact, k)
                             ELSE IF k = <<"groupes">> THEN ListV(<<>>)
                             ELSE IF k = <<"type">> THEN Scalar(<<"contact">>)
                             ELSE Scalar(<<>>)
                    IN [k |-> k,
                        v |-> IF k \in {<<"Tel_Mobile">>, <<"Tel_Fixe">>}
                              THEN PhoneValue(v, cfg) ELSE v]]
    IN RemainingKeys(contact, 1,
                     Append(fixed, [k |-> <<"source_updated">>, v |-> Scalar(Timestamp(now))]))

----------------------------------------------------------------------------
(* One row: process_contact_row *)

\* the 8-character digest of the row (sha1 of its JSON dump), one word per
\* row of the pool; a digest holding a letter, so int() rejects it
HashWords == <<"ha", "hb", "hc", "hd", "he", "hf", "hg", "hh", "hi">>

ComposeId_NoAdvance(src_ms_id, digest, args, seq_counter) ==
    IF IsDigitStr(src_ms_id)
    THEN [skip |-> FALSE, seq |-> seq_counter,
          id |-> format_composed_id(args.id_prefix, src_ms_id, args.id_pad)]
    ELSE IF args.id_fallback = "seq"
    THEN [skip |-> FALSE, seq |-> seq_counter,
          id |-> format_composed_id(args.id_prefix, NatToStr(seq_counter), args.id_pad)]
    ELSE IF args.id_fallback = "hash"
    THEN [skip |-> FALSE, seq |-> seq_counter,
          id |-> format_composed_id(args.id_prefix, digest, args.id_pad)]
    ELSE IF args.id_fallback = "raw"
    THEN [skip |-> FALSE, seq |-> seq_counter,
          id |-> IF src_ms_id # <<>>
                 THEN format_composed_id(args.id_prefix, src_ms_id, args.id_pad)
                 ELSE <<>>]
    ELSE [skip |-> TRUE, seq |-> seq_counter, id |-> <<>>]

ComposeId_SkipAsRaw(src_ms_id, digest, args, seq_counter) ==
    IF IsDigitStr(src_ms_id) \/ args.id_fallback \in {"raw", "skip"}
    THEN [skip |-> FALSE, seq |-> seq_counter,
          id |-> IF src_ms_id # <<>>
                 THEN format_composed_id(args.id_prefix, src_ms_id, args.id_pad)
                 ELSE <<>>]
    ELSE IF args.id_fallback = "seq"
    THEN [skip |-> FALSE, seq |-> seq_counter + 1,
          id |-> format_composed_id(args.id_prefix, NatToStr(seq_counter), args.id_pad)]
    ELSE [skip |-> FALSE, seq |-> seq_counter,
          id |-> format_composed_id(args.id_prefix, digest, args.id_pad)]

\* the composed identity: whether the row is skipped, the identity (empty
\* for none), and the sequence counter afterwards
ComposeId(src_ms_id, digest, args, seq_counter) ==
    IF IsDigitStr(src_ms_id)
    THEN [skip |-> FALSE, seq |-> seq_counter,
          id |-> format_composed_id(args.id_prefix, src_ms_id, args.id_pad)]
    ELSE IF args.id_fallback = "seq"
    THEN [skip |-> FALSE, seq |-> seq_counter + 1,
          id |-> format_composed_id(args.id_prefix, NatToStr(seq_counter), args.id_pad)]
    ELSE IF args.id_fallback = "hash"
    THEN [skip |-> FALSE, seq |-> seq_counter,
          id |-> format_composed_id(args.id_prefix, digest, args.id_pad)]
    ELSE IF args.id_fallback = "raw"
    THEN [skip |-> FALSE, seq |-> seq_counter,
          id |-> IF src_ms_id # <<>>
                 THEN format_composed_id(args.id_prefix, src_ms_id, args.id_pad)
                 ELSE <<>>]
    ELSE [skip |-> TRUE, seq |-> seq_counter, id |-> <<>>]

MatchTarget_EmailFirst(unique_id, email_lc, filename_base, existing_by_id, existing_by_email, files) ==
    IF email_lc # <<>> /\ email_lc \in DOMAIN existing_by_email
    THEN existing_by_email[email_lc]
    ELSE IF unique_id # <<>> /\ unique_id \in DOMAIN existing_by_id
    THEN existing_by_id[unique_id]
    ELSE filename_base

\* the target of a row that is not skipped: the document indexed under its
\* identity, else the one indexed under its e-mail, else a free name
MatchTarget(unique_id, email_lc, filename_base, existing_by_id, existing_by_email, files) ==
    IF unique_id # <<>> /\ unique_id \in DOMAIN existing_by_id
    THEN existing_by_id[unique_id]
    ELSE IF email_lc # <<>> /\ email_lc \in DOMAIN existing_by_email
    THEN existing_by_email[email_lc]
    ELSE FreeName(files, filename_base, 1)

Skipped(contact, seq_counter) ==
    [action |-> "SKIPPED", target |-> <<>>, md_text |-> <<>>, contact |-> contact,
     seq |-> seq_counter, unique_id |-> <<>>, email_lc |-> <<>>, matched |-> FALSE]

\* the text of an updated document: the merged metadata, the old body
UpdatedText(old, new_fm, cfg) ==
    dump_frontmatter(merge_frontmatter(old.fm, new_fm, cfg.preserve_keys,
                                       DEFAULT_OVERWRITE_KEYS \cup cfg.overwrite_keys))
        \o (IF old.body # <<>> THEN old.body ELSE <<"\n">>)

RowText_Created(contact, unique_id, email_lc, target, new_fm, seq_counter, cfg, store) ==
    [action |-> "CREATED", target |-> target,
     md_text |-> dump_frontmatter(new_fm) \o <<"\n">>,
     contact |-> contact, seq |-> seq_counter,
     unique_id |-> unique_id, email_lc |-> email_lc, matched |-> FALSE]

\* lines 642-660: the text to write to the target
RowText(contact, unique_id, email_lc, target, new_fm, seq_counter, cfg, store) ==
    IF target \in DOMAIN store
    THEN [action |-> "UPDATED", target |-> target,
          md_text |-> UpdatedText(read_frontmatter(store[target]), new_fm, cfg),
          contact |-> contact, seq |-> seq_counter,
          unique_id |-> unique_id, email_lc |-> email_lc, matched |-> TRUE]
    ELSE [action |-> "CREATED", target |-> target,
          md_text |-> dump_frontmatter(new_fm) \o <<"\n">>,
          contact |-> contact, seq |-> seq_counter,
          unique_id |-> unique_id, email_lc |-> email_lc, matched |-> FALSE]

\* lines 629-643: the target of the row, its metadata
RowTarget(contact, unique_id, email_lc, filename_base, seq_counter, cfg, existing_by_id, existing_by_email, store, now) ==
    RowText(contact, unique_id, email_lc,
            MatchTarget(unique_id, email_lc, filename_base, existing_by_id, existing_by_email,
                        DOMAIN store),
            build_frontmatter(contact, cfg, now), seq_counter, cfg, store)

\* lines 615-631: the file name, the identity value and the primary e-mail
RowIdentity(contact, seq_counter, cfg, args, existing_by_id, existing_by_email, store, now) ==
    RowTarget(contact, Strip(FieldText(contact, args.id_key)),
              choose_primary_email_lower(contact), sanitize_filename(TitleHuman(contact)),
              seq_counter, cfg, existing_by_id, existing_by_email, store, now)

\* lines 607-612: the row is skipped, or carries its composed identity on
RowComposed(contact0, composed, seq_counter, cfg, args, existing_by_id, existing_by_email, store, now) ==
    IF composed.skip THEN Skipped(contact0, seq_counter)
    ELSE RowIdentity(IF composed.id # <<>>
                     THEN Put(contact0, <<"id_mslist">>, Scalar(composed.id))
                     ELSE contact0,
                     composed.seq, cfg, args, existing_by_id, existing_by_email, store, now)

\* lines 580-606: the required fields are looked at, the identity composed
RowOfContact(contact0, digest, cfg, args, existing_by_id, existing_by_email, store, seq_counter, now) ==
    IF ~\E n \in 1..Len(cfg.required_fields) :
           Strip(FieldText(contact0, cfg.required_fields[n])) # <<>>
    THEN Skipped(contact0, seq_counter)
    ELSE RowComposed(contact0,
                     IF args.id_prefix # <<>>
                     THEN ComposeId(Strip(FieldText(contact0, <<"id_mslist">>)), digest, args,
                                    seq_counter)
                     ELSE [skip |-> FALSE, seq |-> seq_counter, id |-> <<>>],
                     seq_counter, cfg, args, existing_by_id, existing_by_email, store, now)

\* store: the documents of the output directory, file name -> text
process_contact_row(row, digest, cfg, args, existing_by_id, existing_by_email, store, seq_counter, now) ==
    RowOfContact(build_contact(row, cfg), digest, cfg, args, existing_by_id,
                 existing_by_email, store, seq_counter, now)

----------------------------------------------------------------------------
(* The indexes of the existing documents *)

MapPut(f, k, v) == [x \in DOMAIN f \cup {k} |-> IF x = k THEN v ELSE f[x]]
EmptyMap == [x \in {} |-> <<>>]

\* the e-mail candidates of one metadata mapping
EmailCandidates(fm) ==
    UNION {IF IsList(fm[i].v)
           THEN {Lower(Strip(fm[i].v.items[j])) : j \in 1..Len(fm[i].v.items)}
           ELSE {Lower(Strip(PyStr(fm[i].v)))} :
           i \in {n \in 1..Len(fm) :
                    Contains(norm_key_for_match(fm[n].k), <<"m", "a", "i", "l">>)}}

IndexDocument_KeepFirst(idx, md, text) ==
    LET fm == read_frontmatter(text).fm
        id == IF Has(fm, <<"id_mslist">>) THEN PyStr(Get(fm, <<"id_mslist">>)) ELSE <<>>
        emails == {e \in EmailCandidates(fm) : e # <<>> /\ is_valid_email(e)}
    IN IF fm = <<>> THEN idx
       ELSE [by_id |-> IF id # <<>> /\ id \notin DOMAIN idx.by_id
                       THEN MapPut(idx.by_id, id, md) ELSE idx.by_id,
             by_email |-> [e \in DOMAIN idx.by_email \cup emails |->
                              IF e \in DOMAIN idx.by_email THEN idx.by_email[e] ELSE md]]

\* one iteration of the loop of build_existing_indexes: document md
IndexDocument(idx, md, text) ==
    LET fm == read_frontmatter(text).fm
        id == IF Has(fm, <<"id_mslist">>) THEN PyStr(Get(fm, <<"id_mslist">>)) ELSE <<>>
        emails == {e \in EmailCandidates(fm) : e # <<>> /\ is_valid_email(e)}
    IN IF fm = <<>> THEN idx
       ELSE [by_id |-> IF id # <<>> THEN MapPut(idx.by_id, id, md) ELSE idx.by_id,
             by_email |-> [e \in DOMAIN idx.by_email \cup emails |->
                              IF e \in emails THEN md ELSE idx.by_email[e]]]

\* the loop over out_dir.glob('*.md'), in the order the directory yields
\* (a document whose read_text raises OSError is passed over)
RECURSIVE IndexLoop(_, _, _, _)
IndexLoop(store, order, unreadable, idx) ==
    IF order = <<>> THEN idx
    ELSE IndexLoop(store, Tail(order), unreadable,
                   IF order[1] \in DOMAIN unreadable THEN idx
                   ELSE IndexDocument(idx, order[1], store[order[1]]))

build_existing_indexes(store, order, unreadable) ==
    IndexLoop(store, order, unreadable, [by_id |-> EmptyMap, by_email |-> EmptyMap])

\* md.read_text(encoding='utf-8') raises an exception that the except
\* clause of line 515 does not name
IndexRaises(store, unreadable) ==
    \E md \in DOMAIN store \cap DOMAIN unreadable : unreadable[md] # "OSError"

----------------------------------------------------------------------------
(* The pipeline: main(), run again and again on the same input against its *)
(* own output directory.                                                   *)

Email1 == <<"a", "@", "b", ".", "fr">>
Email2 == <<"x", "@", "b", ".", "fr">>

\* one row of the CSV as DictReader yields it: header -> cell
Row(id, nom, mail, notes) == <<
    [k |-> <<"id_mslist">>, v |-> Scalar(id)],
    [k |-> <<"Nom">>, v |-> Scalar(nom)],
    [k |-> <<"Mail_Pro">>, v |-> Scalar(mail)],
    [k |-> <<"notes">>, v |-> Scalar(notes)] >>

RowPool == <<
    Row(<<"7">>, <<"dupont">>, Email1, <<>>),
    Row(<<>>, <<"dupont">>, Email1, <<>>),
    Row(<<>>, <<"martin">>, Email1, <<>>),
    Row(<<>>, <<"dupont">>, <<>>, <<>>),
    Row(<<"7">>, <<"dupont">>, Email2, <<"\"">>),
    Row(<<"7">>, <<>>, <<>>, <<"a">>),
    Row(<<"x">>, <<"martin">>, <<>>, <<>>),
    Row(<<"+", "7">>, <<"martin">>, <<>>, <<>>),
    Row(<<"1">>, <<"martin">>, <<>>, <<>>) >>

\* hashlib.sha1(json.dumps(row)).hexdigest()[:8]: equal rows, equal digests
Digest(row) == <<HashWords[CHOOSE n \in 1..Len(RowPool) : RowPool[n] = row]>>

\* the CSV files: every row of the pool alone, and the files of up to
\* MaxRows rows drawn from the first PairRows rows of the pool
PairRows == 4

RowSeqs ==
    {<<RowPool[p]>> : p \in 1..Len(RowPool)}
        \cup UNION {[1..n -> {RowPool[p] : p \in 1..PairRows}] : n \in 2..MaxRows}

\* load_config of a mapping file that sets only "extras": "all".  json is
\* what the text of the file parses to ("invalid" when it does not parse),
\* types the JSON type of each section the file sets.
DefaultCfg == [
    json |-> "object", types |-> ("extras" :> "string"),
    aliases |-> <<>>, project_aliases |-> <<>>, extras |-> Scalar(<<"all">>),
    list_fields |-> {}, boolean_fields |-> {},
    required_fields |-> DEFAULT_REQUIRED_FIELDS,
    preserve_keys |-> DEFAULT_PRESERVE_KEYS, overwrite_keys |-> {},
    normalize_phone_fr |-> FALSE]

CfgPool == {DefaultCfg}

\* {"extras": "all", "preserve_keys": "notes"}: set("notes") is the set of
\* the characters of the word
StringPreserveCfg == [DefaultCfg EXCEPT
    !.types = ("extras" :> "string") @@ ("preserve_keys" :> "string"),
    !.preserve_keys = {<<"n">>, <<"o">>, <<"t">>, <<"e">>, <<"s">>}]

\* that file, a file that is no JSON, and a file whose top level is a list
EdgeCfgs == {
    StringPreserveCfg,
    [DefaultCfg EXCEPT !.json = "invalid", !.types = <<>>],
    [DefaultCfg EXCEPT !.json = "array", !.types = <<>>]}

\* load_config: the parsed file, or exit status 2
load_config(file) == IF file.json = "invalid" THEN "exit" ELSE "loaded"

\* the sections validate_config warns about
ConfigProblems(cfg) ==
    {key \in {"aliases", "projects", "transforms", "list_fields"} \cap DOMAIN cfg.types :
        cfg.types[key] # "object"}
      \cup {key \in {"preserve_keys", "overwrite_keys"} \cap DOMAIN cfg.types :
                cfg.types[key] # "array"}

\* validate_config: exit status 2 for a top level that is no object; the
\* problems found in the sections are warned about and the run proceeds
validate_config(cfg) ==
    IF cfg.json # "object" THEN "exit"
    ELSE IF ConfigProblems(cfg) # {} THEN "warned" ELSE "ok"

\* lines 698-699: whether main() gets past the configuration
ConfigAccepted(file) == load_config(file) = "loaded" /\ validate_config(file) # "exit"

\* --id-pad when the command line does not give it
DefaultIdPad == 3

\* the parsed command line
Args(prefix, fallback, dry) == [
    id_prefix |-> prefix, id_pad |-> DefaultIdPad, id_fallback |-> fallback,
    id_key |-> <<"id_mslist">>, dry_run |-> dry]

ArgsPool == {
    Args(<<>>, "seq", FALSE), Args(<<>>, "seq", TRUE), Args(<<>>, "skip", FALSE),
    Args(<<"sco">>, "seq", FALSE), Args(<<"sco">>, "skip", FALSE),
    Args(<<"sco">>, "hash", FALSE), Args(<<"sco">>, "raw", FALSE)}

\* a prefix of which sanitizing leaves nothing; --id-key Nom
EdgeArgs == {Args(<<"?">>, "seq", FALSE),
             [Args(<<>>, "seq", FALSE) EXCEPT !.id_key = <<"Nom">>]}

\* a document as an earlier run or a person left it
Doc(fm, body) == dump_frontmatter(fm) \o body

StorePool == {
    EmptyMap,
    (<<"DUPONT">> :> Doc(<< [k |-> <<"Nom">>, v |-> Scalar(<<"dupont">>)],
                            [k |-> <<"id_mslist">>, v |-> Scalar(<<"7">>)],
                            [k |-> <<"Mail_Pro">>, v |-> Scalar(Email2)],
                            [k |-> <<"notes">>, v |-> Scalar(<<"b">>)] >>,
                         <<"\n", "h", "\n">>))
      @@ (<<"MARTIN">> :> Doc(<< [k |-> <<"Nom">>, v |-> Scalar(<<"martin">>)],
                                 [k |-> <<"Mail_Pro">>, v |-> Scalar(Email1)] >>,
                              <<"\n">>)),
    (<<"DUPONT">> :> Doc(<< [k |-> <<"id_mslist">>, v |-> Scalar(<<"SCO", "-", "0", "0", "1">>)],
                            [k |-> <<"notes">>, v |-> Scalar(<<" ">>)] >>,
                         <<>>)) }

\* the key values under which build_existing_indexes files a document
DocKeys(text) ==
    LET fm == read_frontmatter(text).fm
        id == IF Has(fm, <<"id_mslist">>) THEN PyStr(Get(fm, <<"id_mslist">>)) ELSE <<>>
    IN (IF id # <<>> THEN {<<"id", id>>} ELSE {})
         \cup {<<"mail", e>> : e \in {c \in EmailCandidates(fm) : c # <<>> /\ is_valid_email(c)}}

Perms(S) == {p \in [1..Cardinality(S) -> S] : \A x \in S : \E n \in DOMAIN p : p[n] = x}

RECURSIVE SeqOf(_)
SeqOf(S) == IF S = {} THEN <<>> ELSE LET x == CHOOSE y \in S : TRUE IN <<x>> \o SeqOf(S \ {x})

\* the orders in which out_dir.glob('*.md') may yield the documents.  A
\* later document replaces an earlier one under a shared key, so only the
\* relative order of documents that share a key with another one shows in
\* the indexes: those are permuted, the others listed first.
ScanOrders(files) ==
    LET contended == {d \in DOMAIN files :
                        \E e \in DOMAIN files \ {d} : DocKeys(files[d]) \cap DocKeys(files[e]) # {}}
    IN {SeqOf(DOMAIN files \ contended) \o p : p \in Perms(contended)}

\* what target.write_text leaves behind: the text; nothing changed (the
\* open failed); a file cut short (opened and truncated, the write failed
\* before the text or all of it was out: the model keeps the empty file)
WriteOutcomes == {"ok", "failed", "truncated"}

PipeIdle ==
    /\ p_pc = "off"
    /\ p_store = EmptyMap
    /\ p_dir_exists = FALSE
    /\ p_rows = <<>>
    /\ p_cfg = DefaultCfg
    /\ p_args = Args(<<>>, "seq", FALSE)
    /\ p_run = 0
    /\ p_i = 0
    /\ p_by_id = EmptyMap
    /\ p_by_email = EmptyMap
    /\ p_created = 0
    /\ p_updated = 0
    /\ p_skipped = 0
    /\ p_seq_counter = 1
    /\ p_log = <<>>
    /\ p_snaps = <<>>
    /\ p_failures = 0
    /\ p_store0 = EmptyMap
    /\ p_exit = -1
    /\ p_order = <<>>
    /\ p_unreadable = EmptyMap
    /\ p_preview = <<>>

----------------------------------------------------------------------------
(* Codec harness: a metadata mapping is dumped, a body appended, the text  *)
(* read back.                                                              *)

CodecAlphabet == {"a", "0", "7", "+", "\"", "'", ":", "[", "]", " ", ",", "-", "\\", "\n"}

RECURSIVE StringsUpTo(_, _)
StringsUpTo(A, n) ==
    IF n = 0 THEN {<<>>}
    ELSE LET shorter == StringsUpTo(A, n - 1)
         IN shorter \cup {Append(s, c) : s \in {t \in shorter : Len(t) = n - 1}, c \in A}

CodecItems == {<<>>, <<"a">>, <<"0", "7">>, <<"a", " ", "b">>, <<"'", "a", "'">>,
               <<"a", "\"">>, <<" ", "a">>}

RECURSIVE ListsUpTo(_, _)
ListsUpTo(S, n) ==
    IF n = 0 THEN {<<>>}
    ELSE LET shorter == ListsUpTo(S, n - 1)
         IN shorter \cup {Append(l, x) : l \in {t \in shorter : Len(t) = n - 1}, x \in S}

CodecValues ==
    {Scalar(s) : s \in StringsUpTo(CodecAlphabet, MaxScalarLen)}
        \cup {ListV(l) : l \in ListsUpTo(CodecItems, MaxListLen)}

CodecMetas ==
    {<<[k |-> <<"notes">>, v |-> v]>> : v \in CodecValues}
        \cup {<<[k |-> <<"notes">>, v |-> v], [k |-> <<"Nom">>, v |-> Scalar(<<"dupont">>)]>> :
                v \in CodecValues}

CodecBodies == {<<"\n">>, <<"\n", "a", "\n">>}

CodecIdle ==
    /\ c_pc = "off"
    /\ c_meta = <<>>
    /\ c_body = <<>>
    /\ c_text = <<>>
    /\ c_out = [fm |-> <<>>, body |-> <<>>]

MergeIdle ==
    /\ m_pc = "off"
    /\ m_existing = <<>>
    /\ m_new = <<>>
    /\ m_preserve = {}
    /\ m_overwrite = {}
    /\ m_out = <<>>
    /\ m_again = <<>>

ContactIdle ==
    /\ b_pc = "off"
    /\ b_row = <<>>
    /\ b_cfg = DefaultCfg
    /\ b_cands = <<>>
    /\ b_value = <<>>
    /\ b_contact = <<>>

InitCodec ==
    /\ MergeIdle
    /\ PipeIdle
    /\ ContactIdle
    /\ c_pc = "input"
    /\ c_meta \in CodecMetas
    /\ c_body \in CodecBodies
    /\ c_text = <<>>
    /\ c_out = [fm |-> <<>>, body |-> <<>>]

Dump ==
    /\ c_pc = "input"
    /\ c_text' = dump_frontmatter(c_meta) \o c_body
    /\ c_pc' = "dumped"
    /\ UNCHANGED <<c_meta, c_body, c_out, mergeVars, pipeVars, contactVars>>

Read ==
    /\ c_pc = "dumped"
    /\ c_out' = read_frontmatter(c_text)
    /\ c_pc' = "read"
    /\ UNCHANGED <<c_meta, c_body, c_text, mergeVars, pipeVars, contactVars>>

NextCodec == Dump \/ Read

SpecCodec == InitCodec /\ [][NextCodec]_vars

----------------------------------------------------------------------------
(* Merge harness: merge_frontmatter applied to an existing and an incoming *)
(* mapping under a preserve set and an overwrite set.                      *)

MergeKeys == {<<"notes">>, <<"Nom">>}

MergeValues == {Scalar(<<>>), Scalar(<<" ">>), Scalar(<<"a">>), Scalar(<<"b">>),
                ListV(<<>>), ListV(<<<<"a">>>>)}

\* the mappings over MergeKeys, in either insertion order
MergeDicts ==
    {<<>>}
        \cup {<<[k |-> k, v |-> v]>> : k \in MergeKeys, v \in MergeValues}
        \cup {d \in {<<[k |-> k1, v |-> v1], [k |-> k2, v |-> v2]>> :
                        k1 \in MergeKeys, k2 \in MergeKeys,
                        v1 \in MergeValues, v2 \in MergeValues} : d[1].k # d[2].k}

\* the mappings the program merges in: build_frontmatter's fixed key order
IncomingDicts == {d \in MergeDicts : Len(d) < 2 \/ d[1].k = <<"Nom">>}

InitMerge ==
    /\ CodecIdle
    /\ PipeIdle
    /\ ContactIdle
    /\ m_pc = "input"
    /\ m_existing \in MergeDicts
    /\ m_new \in IncomingDicts
    /\ m_preserve \in SUBSET MergeKeys
    /\ m_overwrite \in SUBSET MergeKeys
    /\ m_out = <<>>
    /\ m_again = <<>>

Merge ==
    /\ m_pc = "input"
    /\ m_out' = merge_frontmatter(m_existing, m_new, m_preserve, m_overwrite)
    /\ m_pc' = "merged"
    /\ UNCHANGED <<m_existing, m_new, m_preserve, m_overwrite, m_again, codecVars, pipeVars,
                   contactVars>>

\* the next run over the same record: the document now holds the merged
\* mapping and the same incoming mapping is merged into it
Remerge ==
    /\ m_pc = "merged"
    /\ m_again' = merge_frontmatter(m_out, m_new, m_preserve, m_overwrite)
    /\ m_pc' = "remerged"
    /\ UNCHANGED <<m_existing, m_new, m_preserve, m_overwrite, m_out, codecVars, pipeVars,
                   contactVars>>

NextMerge == Merge \/ Remerge

SpecMerge == InitMerge /\ [][NextMerge]_vars

----------------------------------------------------------------------------
(* Pipeline actions *)

\* a record without source id followed by a record whose source id is 1
SeqClashRows == {<<RowPool[4], RowPool[9]>>}

\* the CSV files of one row
SoloRows == {<<RowPool[p]>> : p \in 1..Len(RowPool)}

\* what a run is started on: every CSV file under every command line of
\* ArgsPool, and the one-row files under the command lines of EdgeArgs and
\* under the mapping files of EdgeCfgs
Scenarios ==
    {[rows |-> r, cfg |-> c, args |-> a] : r \in RowSeqs, c \in CfgPool, a \in ArgsPool}
        \cup {[rows |-> r, cfg |-> c, args |-> a] : r \in SoloRows, c \in CfgPool, a \in EdgeArgs}
        \cup {[rows |-> r, cfg |-> c, args |-> Args(<<>>, "seq", FALSE)] :
                 r \in SoloRows, c \in EdgeCfgs}
        \cup {[rows |-> r, cfg |-> DefaultCfg, args |-> Args(<<"sco">>, "seq", FALSE)] :
                 r \in SeqClashRows}

\* the exceptions md.read_text may raise on a document
ReadFailures == {"OSError", "UnicodeDecodeError"}

\* the documents of the directory that cannot be read (no permission, bytes
\* that are no UTF-8): at most MaxUnreadable of them, under the one-row
\* files and the plain command line only
UnreadableOptions(files, s) ==
    IF s.rows \in SoloRows /\ s.cfg = DefaultCfg /\ s.args = Args(<<>>, "seq", FALSE)
    THEN UNION {[S -> ReadFailures] :
                  S \in {T \in SUBSET DOMAIN files : Cardinality(T) <= MaxUnreadable}}
    ELSE {EmptyMap}

Init ==
    /\ CodecIdle
    /\ MergeIdle
    /\ ContactIdle
    /\ p_pc = "idle"
    /\ p_store \in StorePool
    /\ p_dir_exists \in (IF p_store = EmptyMap THEN BOOLEAN ELSE {TRUE})
    /\ \E s \in Scenarios :
          /\ p_rows = s.rows /\ p_cfg = s.cfg /\ p_args = s.args
          /\ p_unreadable \in UnreadableOptions(p_store, s)
    /\ p_run = 0
    /\ p_i = 0
    /\ p_by_id = EmptyMap
    /\ p_by_email = EmptyMap
    /\ p_created = 0
    /\ p_updated = 0
    /\ p_skipped = 0
    /\ p_seq_counter = 1
    /\ p_log = <<>>
    /\ p_snaps = <<>>
    /\ p_failures = 0
    /\ p_store0 = p_store
    /\ p_exit = -1
    /\ p_order = <<>>
    /\ p_preview = <<>>

Indexed(idx) ==
    /\ p_by_id' = idx.by_id
    /\ p_by_email' = idx.by_email

\* main() up to the loop: a new process (the sequence counter starts at 1),
\* the output directory is made, the indexes are built
StartRun ==
    /\ p_pc = "idle"
    /\ p_run < MaxRuns
    /\ ConfigAccepted(p_cfg)
    /\ ~IndexRaises(p_store, p_unreadable)
    /\ p_exit' = -1
    /\ p_run' = p_run + 1
    /\ p_dir_exists' = TRUE
    /\ \E order \in ScanOrders(p_store) :
          /\ p_order' = order
          /\ Indexed(build_existing_indexes(p_store, order, p_unreadable))
    /\ p_created' = 0
    /\ p_updated' = 0
    /\ p_skipped' = 0
    /\ p_seq_counter' = 1
    /\ p_i' = 1
    /\ p_log' = <<>>
    /\ p_pc' = "rows"
    /\ UNCHANGED <<p_store, p_rows, p_cfg, p_args, p_snaps, p_failures, p_store0,
                   p_unreadable, p_preview, codecVars, mergeVars, contactVars>>

\* the store after target.write_text(md_text) with the given outcome
Written(files, target, md_text, outcome) ==
    IF outcome = "ok" THEN MapPut(files, target, md_text)
    ELSE IF outcome = "truncated" THEN MapPut(files, target, <<>>)
    ELSE files

\* lines 716-734: the outcome r of the row is counted and, in write mode,
\* its text written
CountAndWrite(r, writes) ==
    /\ p_seq_counter' = r.seq
    /\ p_skipped' = IF r.action = "SKIPPED" THEN p_skipped + 1 ELSE p_skipped
    /\ p_created' = IF r.action = "CREATED" THEN p_created + 1 ELSE p_created
    /\ p_updated' = IF r.action = "UPDATED" THEN p_updated + 1 ELSE p_updated
    /\ \E outcome \in (IF ~writes THEN {"none"}
                       ELSE IF p_failures < MaxWriteFailures THEN WriteOutcomes
                       ELSE {"ok"}) :
          /\ p_store' = IF writes THEN Written(p_store, r.target, r.md_text, outcome)
                         ELSE p_store
          /\ p_failures' = IF outcome \in {"failed", "truncated"} THEN p_failures + 1
                            ELSE p_failures
          /\ p_log' = Append(p_log, [action |-> r.action, target |-> r.target,
                                     unique_id |-> r.unique_id, email_lc |-> r.email_lc,
                                     written |-> outcome,
                                     before |-> IF r.action = "UPDATED"
                                                THEN p_store[r.target] ELSE <<>>])

Outcome(r) == CountAndWrite(r, r.action # "SKIPPED" /\ ~p_args.dry_run)

\* one turn of the loop of main(): the row is processed, counted, and in
\* write mode written
ProcessRow ==
    /\ p_pc = "rows"
    /\ p_i <= Len(p_rows)
    /\ Outcome(process_contact_row(p_rows[p_i], Digest(p_rows[p_i]), p_cfg, p_args,
                                   p_by_id, p_by_email, p_store, p_seq_counter, p_run))
    /\ p_i' = p_i + 1
    /\ UNCHANGED <<p_pc, p_dir_exists, p_rows, p_cfg, p_args, p_run, p_by_id, p_by_email,
                   p_snaps, p_store0, p_exit, p_order, p_unreadable, p_preview, codecVars,
                   mergeVars, contactVars>>

\* the summary line; the process ends and leaves the store behind
FinishRun ==
    /\ p_pc = "rows"
    /\ p_i > Len(p_rows)
    /\ p_pc' = "idle"
    /\ p_snaps' = Append(p_snaps, p_store)
    /\ p_exit' = 0
    /\ UNCHANGED <<p_store, p_dir_exists, p_rows, p_cfg, p_args, p_run, p_i, p_by_id,
                   p_by_email, p_created, p_updated, p_skipped, p_seq_counter, p_log,
                   p_failures, p_store0, p_order, p_unreadable, p_preview, codecVars,
                   mergeVars, contactVars>>

\* main() stopped by load_config or validate_config: sys.exit(2) before the
\* output directory is made
AbortRun ==
    /\ p_pc = "idle"
    /\ p_run < MaxRuns
    /\ ~ConfigAccepted(p_cfg)
    /\ p_run' = p_run + 1
    /\ p_exit' = 2
    /\ UNCHANGED <<p_pc, p_i, p_store, p_dir_exists, p_rows, p_cfg, p_args, p_by_id,
                   p_by_email, p_created, p_updated, p_skipped, p_seq_counter, p_log,
                   p_snaps, p_failures, p_store0, p_order, p_unreadable, p_preview,
                   codecVars, mergeVars, contactVars>>

\* main() stopped in build_existing_indexes by an exception that is no
\* OSError: the traceback, exit status 1, the output directory made
IndexCrash ==
    /\ p_pc = "idle"
    /\ p_run < MaxRuns
    /\ ConfigAccepted(p_cfg)
    /\ IndexRaises(p_store, p_unreadable)
    /\ p_run' = p_run + 1
    /\ p_dir_exists' = TRUE
    /\ p_exit' = 1
    /\ UNCHANGED <<p_pc, p_i, p_store, p_rows, p_cfg, p_args, p_by_id, p_by_email,
                   p_created, p_updated, p_skipped, p_seq_counter, p_log, p_snaps,
                   p_failures, p_store0, p_order, p_unreadable, p_preview, codecVars,
                   mergeVars, contactVars>>

\* after a preview the same command line is given again without --dry-run
RunForReal ==
    /\ p_pc = "idle"
    /\ p_args.dry_run
    /\ p_exit = 0
    /\ p_run < MaxRuns
    /\ p_args' = [p_args EXCEPT !.dry_run = FALSE]
    /\ p_preview' = <<p_log>>
    /\ UNCHANGED <<p_pc, p_run, p_i, p_store, p_dir_exists, p_rows, p_cfg, p_by_id,
                   p_by_email, p_created, p_updated, p_skipped, p_seq_counter, p_log,
                   p_snaps, p_failures, p_store0, p_exit, p_order, p_unreadable, codecVars,
                   mergeVars, contactVars>>

Next == StartRun \/ AbortRun \/ IndexCrash \/ ProcessRow \/ FinishRun \/ RunForReal

Spec == Init /\ [][Next]_vars

----------------------------------------------------------------------------
(* The contact harness: one call of select_first_present or of             *)
(* build_contact on a record whose headers are drawn from names that meet  *)
(* under normalisation (case, accent, trailing s).                         *)

ContactHeaders == {"Nom", "Noms", "Prenom", "Organisation", "organisation", "notes"}

\* a cell: empty, blank, or one of two words
ContactCells == {<<>>, <<" ">>, <<"a">>, <<"b">>}

\* the records csv.DictReader can yield over these headers: up to
\* MaxFields columns, no header twice
ContactRows ==
    UNION {{[i \in 1..n |-> [k |-> <<f[i][1]>>, v |-> Scalar(f[i][2])]] :
                f \in {g \in [1..n -> ContactHeaders \X ContactCells] :
                          \A i, j \in 1..n : g[i][1] = g[j][1] => i = j}} :
           n \in 0..MaxFields}

\* the candidate lists select_first_present is called with
CandLists == {
    <<>>,
    << <<"Nom">> >>,
    << <<"Noms">> >>,
    << <<"Prénom">> >>,
    << <<"organisation">> >>,
    << <<"Organisation">>, <<"Nom">> >>,
    << <<"notes">>, <<"Nom">> >>}

\* {"extras": ["Noms", "Organisation", "Prenom", "notes"]}
ListedExtrasCfg == [DefaultCfg EXCEPT
    !.types = ("extras" :> "array"),
    !.extras = ListV(<< <<"Noms">>, <<"Organisation">>, <<"Prenom">>, <<"notes">> >>)]

\* {"extras": "all", "aliases": {"Nom": ["notes", "Noms"]}}
AliasedCfg == [DefaultCfg EXCEPT
    !.types = ("extras" :> "string") @@ ("aliases" :> "object"),
    !.aliases = << [k |-> <<"Nom">>, v |-> ListV(<< <<"notes">>, <<"Noms">> >>)] >>]

ContactCfgs == {DefaultCfg, ListedExtrasCfg, AliasedCfg}

InitContact ==
    /\ CodecIdle
    /\ MergeIdle
    /\ PipeIdle
    /\ b_row \in ContactRows
    /\ \/ b_pc = "select" /\ b_cands \in CandLists /\ b_cfg = DefaultCfg
       \/ b_pc = "build" /\ b_cands = <<>> /\ b_cfg \in ContactCfgs
    /\ b_value = <<>>
    /\ b_contact = <<>>

Select ==
    /\ b_pc = "select"
    /\ b_value' = select_first_present(b_row, b_cands)
    /\ b_pc' = "selected"
    /\ UNCHANGED <<b_row, b_cfg, b_cands, b_contact, codecVars, mergeVars, pipeVars>>

Build ==
    /\ b_pc = "build"
    /\ b_contact' = build_contact(b_row, b_cfg)
    /\ b_pc' = "built"
    /\ UNCHANGED <<b_row, b_cfg, b_cands, b_value, codecVars, mergeVars, pipeVars>>

NextContact == Select \/ Build

SpecContact == InitContact /\ [][NextContact]_vars

----------------------------------------------------------------------------
(* C1: whatever metadata mapping of scalar strings and lists of strings is *)
(* dumped and followed by a body, reading the text back returns a mapping  *)
(* equal to the one dumped.                                                *)
C1_RoundTrip == c_pc = "read" => c_out.fm = c_meta

----------------------------------------------------------------------------
(* C2: every incoming key that is a preserve key and is present in the     *)
(* existing mapping keeps its existing value in the merged mapping,        *)
(* whatever the incoming value and whether or not it is an overwrite key.  *)
C2_PreservePrecedence ==
    m_pc = "merged" =>
        \A k \in Keys(m_new) :
            (k \in m_preserve /\ Has(m_existing, k)) =>
                Has(m_out, k) /\ Get(m_out, k) = Get(m_existing, k)

C2_Witness ==
    /\ m_pc = "merged"
    /\ \E k \in Keys(m_new) :
          /\ k \in m_preserve /\ k \in m_overwrite
          /\ Has(m_existing, k)
          /\ Get(m_existing, k) = Scalar(<<>>)
          /\ Get(m_new, k) = Scalar(<<"a">>)
          /\ Get(m_out, k) = Scalar(<<>>)

(* C8: a key of the existing mapping that the incoming mapping lacks keeps *)
(* its existing value, and the merged keys are exactly the existing keys   *)
(* together with the incoming keys.                                        *)
C8_MergeFrame ==
    m_pc = "merged" =>
        /\ \A k \in Keys(m_existing) \ Keys(m_new) :
              Has(m_out, k) /\ Get(m_out, k) = Get(m_existing, k)
        /\ Keys(m_out) = Keys(m_existing) \cup Keys(m_new)
        /\ Cardinality(Keys(m_out)) = Len(m_out)

C8_Witness ==
    /\ m_pc = "merged"
    /\ Keys(m_existing) = {<<"notes">>}
    /\ Keys(m_new) = {<<"Nom">>}
    /\ Get(m_existing, <<"notes">>) = Scalar(<<"a">>)
    /\ Get(m_out, <<"notes">>) = Scalar(<<"a">>)
    /\ Has(m_out, <<"Nom">>)

\* the claim's reading of an empty value: the empty string or the empty list
C9_LiterallyEmpty(v) == v = Scalar(<<>>) \/ v = ListV(<<>>)

\* an empty list, or a string of no characters other than whitespace
C9_Blank(v) ==
    IF v.kind = "list" THEN v.items = <<>>
    ELSE \A i \in 1..Len(v.items[1]) : v.items[1][i] \in {" ", "\n"}

(* C9 as stated: an incoming key in neither key set keeps the existing     *)
(* value when that is present and not the empty string or the empty list,  *)
(* and takes the incoming value when the key is absent or its value is the *)
(* empty string or the empty list.                                         *)
C9_DefaultPolicy_AsStated ==
    m_pc = "merged" =>
        \A k \in Keys(m_new) \ (m_preserve \cup m_overwrite) :
            IF Has(m_existing, k) /\ ~C9_LiterallyEmpty(Get(m_existing, k))
            THEN Get(m_out, k) = Get(m_existing, k)
            ELSE Get(m_out, k) = Get(m_new, k)

(* C9 amended: an incoming key in neither key set keeps the existing value *)
(* when that is present and is neither an empty list nor a string that is  *)
(* empty or all whitespace, and takes the incoming value otherwise.        *)
C9_DefaultPolicy ==
    m_pc = "merged" =>
        \A k \in Keys(m_new) \ (m_preserve \cup m_overwrite) :
            IF Has(m_existing, k) /\ ~C9_Blank(Get(m_existing, k))
            THEN Get(m_out, k) = Get(m_existing, k)
            ELSE Get(m_out, k) = Get(m_new, k)

C9_Witness ==
    /\ m_pc = "merged"
    /\ m_preserve = {} /\ m_overwrite = {}
    /\ Has(m_existing, <<"notes">>) /\ Has(m_new, <<"notes">>)
    /\ Has(m_existing, <<"Nom">>) /\ Has(m_new, <<"Nom">>)
    /\ Get(m_existing, <<"notes">>) = Scalar(<<" ">>)
    /\ Get(m_new, <<"notes">>) = Scalar(<<"b">>)
    /\ Get(m_out, <<"notes">>) = Scalar(<<"b">>)
    /\ Get(m_existing, <<"Nom">>) = Scalar(<<"a">>)
    /\ Get(m_new, <<"Nom">>) = Scalar(<<"b">>)
    /\ Get(m_out, <<"Nom">>) = Scalar(<<"a">>)

(* C10: an incoming key that is an overwrite key, and is not a preserve    *)
(* key present in the existing mapping, takes the incoming value, also     *)
(* when the incoming value is empty and the existing one is not.           *)
C10_OverwritePolicy ==
    m_pc = "merged" =>
        \A k \in Keys(m_new) :
            (k \in m_overwrite /\ ~(k \in m_preserve /\ Has(m_existing, k))) =>
                Has(m_out, k) /\ Get(m_out, k) = Get(m_new, k)

C10_Witness ==
    /\ m_pc = "merged"
    /\ \E k \in Keys(m_new) :
          /\ k \in m_overwrite /\ k \notin m_preserve
          /\ Has(m_existing, k)
          /\ Get(m_existing, k) = Scalar(<<"a">>)
          /\ Get(m_new, k) = Scalar(<<>>)
          /\ Get(m_out, k) = Scalar(<<>>)

----------------------------------------------------------------------------
(* Claims about the pipeline *)

\* the value of key k in a document, as the program reads the document
DocValue(text, k) ==
    LET fm == read_frontmatter(text).fm
    IN IF Has(fm, k) THEN <<Get(fm, k)>> ELSE <<>>

\* the keys whose values a second run is said to leave alone
StableKeys ==
    (p_cfg.preserve_keys \cup DEFAULT_OVERWRITE_KEYS \cup p_cfg.overwrite_keys)
        \ {<<"source_updated">>}

(* C3: after two runs in write mode on the same rows and configuration,    *)
(* every preserve key and every overwrite key other than source_updated    *)
(* has, in every document, the value it had after the first run.           *)
C3_ValuesStable ==
    (Len(p_snaps) >= 2 /\ ~p_args.dry_run /\ p_failures = 0) =>
        \A d \in DOMAIN p_snaps[1] : \A k \in StableKeys :
            DocValue(p_snaps[2][d], k) = DocValue(p_snaps[1][d], k)

(* C4: run again and again in write mode on the same rows, the store holds *)
(* after the third run as many documents as after the second.              *)
C4_CountStable ==
    (Len(p_snaps) >= 3 /\ ~p_args.dry_run /\ p_failures = 0) =>
        Cardinality(DOMAIN p_snaps[3]) = Cardinality(DOMAIN p_snaps[2])

(* C5: when a row is matched to an existing document and the document is   *)
(* rewritten, the text after the metadata block is the text that was there *)
(* before the rewrite.                                                     *)
C5_BodyPreserved ==
    p_log # <<>> =>
        LET e == p_log[Len(p_log)]
        IN (e.action = "UPDATED" /\ e.written = "ok") =>
              read_frontmatter(p_store[e.target]).body = read_frontmatter(e.before).body

\* the identity value of the p-th row of the run: the one matched on, or
\* for a skipped row (which never reaches the matching) the one of its
\* contact
RecordIdentity(p) ==
    IF p_log[p].action = "SKIPPED"
    THEN Strip(FieldText(build_contact(p_rows[p], p_cfg), p_args.id_key))
    ELSE p_log[p].unique_id

\* the original wording of C6: every record whose identity value is a key
\* of the identity index is routed to the document indexed there, UPDATED
C6_IdentityFirst_AsStated ==
    \A p \in DOMAIN p_log :
        (RecordIdentity(p) # <<>> /\ RecordIdentity(p) \in DOMAIN p_by_id) =>
            /\ p_log[p].target = p_by_id[RecordIdentity(p)]
            /\ p_log[p].action = "UPDATED"

(* C6: every row that is not skipped and whose identity value is non-empty *)
(* and a key of the identity index has the document indexed under that     *)
(* identity as its target and is UPDATED, whatever its e-mail and whatever  *)
(* the e-mail index holds.                                                 *)
C6_IdentityFirst ==
    \A p \in DOMAIN p_log :
        (/\ p_log[p].action # "SKIPPED"
         /\ p_log[p].unique_id # <<>>
         /\ p_log[p].unique_id \in DOMAIN p_by_id) =>
            /\ p_log[p].target = p_by_id[p_log[p].unique_id]
            /\ p_log[p].action = "UPDATED"

\* a row matched on its identity while the e-mail index files its e-mail
\* under another document
C6_Witness ==
    \E p \in DOMAIN p_log :
        /\ p_log[p].unique_id # <<>>
        /\ p_log[p].unique_id \in DOMAIN p_by_id
        /\ p_log[p].email_lc \in DOMAIN p_by_email
        /\ p_by_email[p_log[p].email_lc] # p_by_id[p_log[p].unique_id]
        /\ p_log[p].target = p_by_id[p_log[p].unique_id]
        /\ p_log[p].action = "UPDATED"

\* rows p and q of the run carry no source identity and the same valid
\* primary e-mail, and no document of the indexes matches them
C7_Pair(p, q) ==
    LET cp == build_contact(p_rows[p], p_cfg)
        cq == build_contact(p_rows[q], p_cfg)
    IN /\ Strip(FieldText(cp, <<"id_mslist">>)) = <<>>
       /\ Strip(FieldText(cq, <<"id_mslist">>)) = <<>>
       /\ choose_primary_email_lower(cp) # <<>>
       /\ choose_primary_email_lower(cp) = choose_primary_email_lower(cq)
       /\ choose_primary_email_lower(cp) \notin DOMAIN p_by_email
       /\ p_log[p].unique_id \notin DOMAIN p_by_id
       /\ p_log[q].unique_id \notin DOMAIN p_by_id

\* the indexes change only when a run starts, before its first row
C7_IndexBuiltOnce ==
    (p_by_id' # p_by_id \/ p_by_email' # p_by_email) =>
        (p_pc = "idle" /\ p_pc' = "rows" /\ p_i' = 1 /\ p_log' = <<>>)

----------------------------------------------------------------------------
(* Claims about the outcome of one record *)

\* a value that is the empty string or the empty list
LiterallyEmpty(v) == v = Scalar(<<>>) \/ v = ListV(<<>>)

\* the contact built from the row the loop is about to process
RowContact == build_contact(p_rows[p_i], p_cfg)

\* every required field of that contact is empty
AllRequiredEmpty ==
    \A n \in 1..Len(p_cfg.required_fields) :
        Has(RowContact, p_cfg.required_fields[n]) =>
            LiterallyEmpty(Get(RowContact, p_cfg.required_fields[n]))

\* the raw source identity of that contact is empty or holds a character
\* that is no decimal digit
NoNumericSourceId ==
    LET id == Strip(FieldText(RowContact, <<"id_mslist">>))
    IN id = <<>> \/ \E n \in 1..Len(id) : id[n] \notin Digits

\* the step processes one record
RecordStep == p_pc = "rows" /\ p_i' = p_i + 1

\* the step logs SKIPPED, touches no document and advances the skipped
\* count alone
StepSkips ==
    /\ p_log'[Len(p_log')].action = "SKIPPED"
    /\ p_store' = p_store
    /\ p_skipped' = p_skipped + 1
    /\ p_created' = p_created
    /\ p_updated' = p_updated
    /\ p_seq_counter' = p_seq_counter

\* the original wording of C11: the skip fallback skips a record without a
\* numeric source identity, whether or not a prefix is configured
C11_SkipOutcome_AsStated ==
    [][RecordStep =>
          /\ (AllRequiredEmpty \/ (p_args.id_fallback = "skip" /\ NoNumericSourceId))
                => StepSkips
          /\ p_log'[Len(p_log')].action = "SKIPPED" => StepSkips]_vars

(* C11: a record is SKIPPED, and no document is created or modified for    *)
(* it, whenever every required field of its contact is empty, or an        *)
(* identity prefix is configured, the fallback is skip and its raw source   *)
(* identity is empty or not numeric; a SKIPPED record advances the skipped  *)
(* count and nothing else.                                                 *)
C11_SkipOutcome ==
    [][RecordStep =>
          /\ (\/ AllRequiredEmpty
              \/ (p_args.id_prefix # <<>> /\ p_args.id_fallback = "skip"
                    /\ NoNumericSourceId))
                => StepSkips
          /\ p_log'[Len(p_log')].action = "SKIPPED" => StepSkips]_vars

\* a record with a name and no numeric identity, skipped by the fallback
C11_Witness ==
    /\ p_args.id_prefix # <<>> /\ p_args.id_fallback = "skip"
    /\ p_run = 1 /\ Len(p_log) = 1
    /\ Get(p_rows[1], <<"Nom">>) # Scalar(<<>>)
    /\ Get(p_rows[1], <<"id_mslist">>) = Scalar(<<"x">>)
    /\ p_log[1].action = "SKIPPED"
    /\ p_skipped = 1 /\ p_created = 0 /\ p_updated = 0 /\ p_seq_counter = 1
    /\ p_store \in StorePool

----------------------------------------------------------------------------
(* C12: a run with the preview flag leaves the store location as it was:   *)
(* no document is created or modified and nothing is created at the store  *)
(* path, while every record processed still has its action reported.       *)
C12_PreviewNoWrite ==
    [][p_args.dry_run =>
          /\ p_store' = p_store
          /\ p_dir_exists' = p_dir_exists
          /\ RecordStep => Len(p_log') = Len(p_log) + 1]_vars

----------------------------------------------------------------------------
\* the n-th name tried for a new document: the base name, then the base
\* name with the suffix " - 2", " - 3", ...
NthName(base, n) == IF n = 1 THEN base ELSE base \o <<" ", "-", " ">> \o NatToStr(n)

\* the step logs CREATED for a path that was no document, the first unused
\* one among the names tried
StepCreatesFresh ==
    LET target == p_log'[Len(p_log')].target
        base == sanitize_filename(TitleHuman(RowContact))
    IN /\ target \notin DOMAIN p_store
       /\ \E n \in 1..(Cardinality(DOMAIN p_store) + 1) :
             /\ target = NthName(base, n)
             /\ \A m \in 1..(n - 1) : NthName(base, m) \in DOMAIN p_store

(* C13: in write mode no step removes a document path from the store, and  *)
(* the target of every CREATED record was no document of the store when it *)
(* was chosen: it is the base name, or the base name with the first        *)
(* suffix " - N" that is unused.                                           *)
C13_NeverDeletes ==
    [][~p_args.dry_run =>
          /\ DOMAIN p_store \subseteq DOMAIN p_store'
          /\ (RecordStep /\ p_log'[Len(p_log')].action = "CREATED") => StepCreatesFresh]_vars

\* a record created under a suffixed name next to the document it collided
\* with, and an existing document updated in the same store
C13_Witness ==
    /\ ~p_args.dry_run
    /\ \E p \in DOMAIN p_log :
          /\ p_log[p].action = "CREATED" /\ p_log[p].written = "ok"
          /\ p_log[p].target = <<"DUPONT", " ", "-", " ", "2">>
    /\ <<"DUPONT">> \in DOMAIN p_store
    /\ <<"DUPONT", " ", "-", " ", "2">> \in DOMAIN p_store
    /\ p_snaps # <<>> /\ DOMAIN p_snaps[1] \subseteq DOMAIN p_store

----------------------------------------------------------------------------
(* Claims about the composed identity *)

\* the prefix reduced to upper-case letters, digits and underscores
SanitizedPrefix ==
    SelectSeq(Upper(p_args.id_prefix), LAMBDA c : c \in SafeSyms \ {"-"})

\* the integer value of a string of digits, zero-padded to the pad width
PaddedNumber(digits, pad) == ZeroPad(DropLeadingZeros(digits), pad)

\* the raw source identity of the contact about to be processed
RawSourceId == Strip(FieldText(RowContact, <<"id_mslist">>))

DecimalDigits(s) == s # <<>> /\ \A n \in 1..Len(s) : s[n] \in Digits

\* the identity '<PREFIX>-<padded number>', the padded number alone when
\* sanitizing leaves nothing of the prefix
NumericIdentity ==
    IF SanitizedPrefix # <<>>
    THEN SanitizedPrefix \o <<"-">> \o PaddedNumber(RawSourceId, p_args.id_pad)
    ELSE PaddedNumber(RawSourceId, p_args.id_pad)

\* the run is scenario A: empty store, one record of identity 7, prefix
\* SCO, pad 3, write mode, first run finished without a failed write
ScenarioA ==
    /\ p_run = 1 /\ p_pc = "idle" /\ Len(p_snaps) = 1
    /\ Len(p_rows) = 1 /\ Get(p_rows[1], <<"id_mslist">>) = Scalar(<<"7">>)
    /\ SanitizedPrefix = <<"SCO">> /\ p_args.id_pad = 3
    /\ ~p_args.dry_run /\ p_failures = 0
    /\ p_store0 = EmptyMap

\* scenario A ended with one document, created, of identity SCO-007
ScenarioA_Result ==
    /\ p_created = 1 /\ p_updated = 0 /\ p_skipped = 0
    /\ Cardinality(DOMAIN p_store) = 1
    /\ \A d \in DOMAIN p_store :
          DocValue(p_store[d], <<"id_mslist">>) = <<Scalar(<<"SCO", "-", "0", "0", "7">>)>>

StepStoresNumericIdentity ==
    (/\ p_args.id_prefix # <<>>
     /\ DecimalDigits(RawSourceId)
     /\ p_log'[Len(p_log')].action # "SKIPPED"
     /\ p_log'[Len(p_log')].written = "ok") =>
        /\ p_log'[Len(p_log')].unique_id = NumericIdentity
        /\ DocValue(p_store'[p_log'[Len(p_log')].target], <<"id_mslist">>)
              = <<Scalar(NumericIdentity)>>

----------------------------------------------------------------------------
\* the step's write failed
StepWriteFailed == p_log'[Len(p_log')].written \in {"failed", "truncated"}

(* C15: a failed write is not retried, the loop goes on with the next      *)
(* record in source order, the run ends only after the last record, and    *)
(* the document whose write failed is left as it was, not partially        *)
(* written.                                                                *)
C15_WriteFailure ==
    [][/\ (RecordStep /\ StepWriteFailed) =>
             /\ Len(p_log') = Len(p_log) + 1
             /\ p_pc' = "rows"
             /\ p_store' = p_store
       /\ (p_pc = "rows" /\ p_pc' = "idle") =>
             /\ Len(p_log) = Len(p_rows)
             /\ Len(p_snaps') = Len(p_snaps) + 1]_vars

----------------------------------------------------------------------------
\* the mapping file is malformed, or a recognized section of it has the
\* wrong shape
Malformed(cfg) ==
    \/ cfg.json # "object"
    \/ \E key \in {"aliases", "projects", "transforms", "list_fields"} \cap DOMAIN cfg.types :
          cfg.types[key] # "object"
    \/ \E key \in {"preserve_keys", "overwrite_keys"} \cap DOMAIN cfg.types :
          cfg.types[key] # "array"

(* C16: under a malformed or wrongly shaped configuration no record is     *)
(* ever processed and no document written, and every run ends with an      *)
(* exit status other than success.                                         *)
C16_ConfigFatal ==
    Malformed(p_cfg) =>
        /\ p_pc = "idle" /\ p_log = <<>>
        /\ p_store = p_store0
        /\ p_run > 0 => p_exit > 0

----------------------------------------------------------------------------
\* the p-th record of the run took the seq fallback: a prefix is configured,
\* the fallback is seq, the record was not skipped and its raw source
\* identity is no string of digits
TookSeq(p) ==
    /\ p_args.id_prefix # <<>> /\ p_args.id_fallback = "seq"
    /\ p_log[p].action # "SKIPPED"
    /\ ~DecimalDigits(Strip(FieldText(build_contact(p_rows[p], p_cfg), <<"id_mslist">>)))

SeqTakers == {p \in DOMAIN p_log : TookSeq(p)}

\* the identity composed from the counter value k
SeqIdentity(k) ==
    IF SanitizedPrefix # <<>>
    THEN SanitizedPrefix \o <<"-">> \o PaddedNumber(NatToStr(k), p_args.id_pad)
    ELSE PaddedNumber(NatToStr(k), p_args.id_pad)

(* C17: in every run the counter is its initial value 1 plus the number of *)
(* records that took the seq fallback so far, whatever the other records   *)
(* were; the k-th record that took it carries the identity composed from   *)
(* k, so the seq identities of a run are distinct and increase in source   *)
(* order.                                                                  *)
C17_SeqCounter ==
    /\ p_seq_counter = 1 + Cardinality(SeqTakers)
    /\ \A p \in SeqTakers :
          p_log[p].unique_id = SeqIdentity(Cardinality({q \in SeqTakers : q <= p}))
    /\ \A p, q \in SeqTakers : p < q => p_log[p].unique_id # p_log[q].unique_id

\* a second run in which two records took the seq fallback
C17_Witness ==
    /\ p_run = 2 /\ Len(p_log) = 2 /\ SeqTakers = {1, 2}
    /\ p_seq_counter = 3
    /\ p_log[1].unique_id = <<"SCO", "-", "0", "0", "1">>
    /\ p_log[2].unique_id = <<"SCO", "-", "0", "0", "2">>

----------------------------------------------------------------------------
(* C18: in every contact build_contact returns, under the extras policy    *)
(* 'all' and under an explicit list alike, no extra (non-canonical) key    *)
(* has a normalised name (accents, case and a plural s set aside) equal to *)
(* the normalised name of a canonical field: a record field that collides  *)
(* in this sense is dropped.                                               *)
CanonicalKeys == {LogicalFields[i] : i \in 1..Len(LogicalFields)}

\* the name with accents, case and a trailing s set aside
PluralNorm(name) == singularize_norm(norm_key_for_match(name))

ExtraKeys(contact) == Keys(contact) \ CanonicalKeys

C18_ExtrasCollision ==
    b_pc = "built" =>
        \A k \in ExtraKeys(b_contact) : \A f \in CanonicalKeys : PluralNorm(k) # PluralNorm(f)

----------------------------------------------------------------------------
(* C19: select_first_present(record, candidates) returns the value of the  *)
(* first candidate, in list order, that yields a non-empty value, the      *)
(* exact field name being tried first for each candidate and then the      *)
(* normalised / singular-insensitive name; it returns the empty string     *)
(* when no candidate yields a non-empty value.  (A blank value is counted  *)
(* as empty here, as the code counts it.)                                  *)
Blank(v) == Strip(v) = <<>>

\* the names a header or a candidate answers to: normalised, and singular
MatchNames(name) == {norm_key_for_match(name), singularize_norm(norm_key_for_match(name))}

\* the non-blank values of the fields whose name meets the candidate's
LooseValues(row, c) ==
    {Str(row[i].v) : i \in {j \in 1..Len(row) :
                              /\ MatchNames(row[j].k) \cap MatchNames(c) # {}
                              /\ ~Blank(Str(row[j].v))}}

\* what a candidate yields: the exact field if it is not blank, else a
\* field met by the normalised / singular-insensitive name
Yields(row, c) ==
    IF Has(row, c) /\ ~Blank(Str(Get(row, c))) THEN {Str(Get(row, c))}
    ELSE LooseValues(row, c)

YieldingCandidates(row, cands) == {n \in 1..Len(cands) : Yields(row, cands[n]) # {}}

C19_ResolutionOrder ==
    b_pc = "selected" =>
        IF YieldingCandidates(b_row, b_cands) = {} THEN b_value = <<>>
        ELSE b_value \in Yields(b_row, b_cands[SetMin(YieldingCandidates(b_row, b_cands))])

----------------------------------------------------------------------------
(* C20: the encoder emits a string scalar quoted when it consists only of  *)
(* digits, or starts with '+', or starts with '0' and is longer than one   *)
(* character; unquoted when it is otherwise a safe bare word (letters,     *)
(* digits, underscore, hyphen only); and quoted in every other case.       *)
MustQuote(s) ==
    \/ IsDigitStr(s)
    \/ s # <<>> /\ s[1] = "+"
    \/ Len(s) > 1 /\ s[1] = "0"

SafeBareWord(s) == s # <<>> /\ \A i \in 1..Len(s) : s[i] \in SafeSyms

InQuotes(e) == Len(e) >= 2 /\ e[1] = "\"" /\ e[Len(e)] = "\""

\* a document of one scalar entry has been dumped
OneScalarDumped == c_pc # "input" /\ c_pc # "off" /\ Len(c_meta) = 1 /\ IsStr(c_meta[1].v)

\* what stands between "key: " and the end of the entry's line
EmittedScalar == SubSeq(c_text, 4 + Len(c_meta[1].k) + 3, Len(c_text) - Len(c_body) - 5)

C20_ScalarQuoting ==
    OneScalarDumped =>
        IF MustQuote(Str(c_meta[1].v)) THEN InQuotes(EmittedScalar)
        ELSE IF SafeBareWord(Str(c_meta[1].v)) THEN EmittedScalar = Str(c_meta[1].v)
        ELSE InQuotes(EmittedScalar)

----------------------------------------------------------------------------
(* C25: merging is idempotent: for every existing mapping, incoming        *)
(* mapping, preserve set and overwrite set, merging the incoming mapping   *)
(* into the merged mapping once more gives the merged mapping again.       *)
C25_MergeIdempotent == m_pc = "remerged" => m_again = m_out

\* the second merge had something to decide: the first one took an
\* incoming value, kept an existing one, and added a key
C25_Witness ==
    /\ m_pc = "remerged"
    /\ m_out # m_existing /\ m_out # m_new
    /\ Len(m_out) > Len(m_existing)
    /\ \E k \in Keys(m_new) : Has(m_existing, k) /\ Get(m_out, k) # Get(m_new, k)
    /\ \E k \in Keys(m_new) : k \in m_preserve /\ ~Has(m_existing, k)

----------------------------------------------------------------------------
(* C30: in every contact build_contact returns, the value of 'groupes' is  *)
(* a list of strings (possibly empty), whether or not the configuration    *)
(* declares a list_fields section.                                         *)
C30_GroupesIsList ==
    b_pc = "built" => Has(b_contact, <<"groupes">>) /\ IsList(Get(b_contact, <<"groupes">>))

----------------------------------------------------------------------------
(* C21: after build_existing_indexes, every by-id entry maps a non-empty   *)
(* identity to a document whose decoded metadata holds that identity, and  *)
(* every by-email entry maps a lower-cased, syntactically valid e-mail     *)
(* address to a document that holds it (case and surrounding blanks set    *)
(* aside) in a field whose normalised name contains 'mail', as a scalar or *)
(* as a list item; when several documents share a key, the entry points   *)
(* to the one scanned last.                                                *)
JustIndexed == p_pc = "rows" /\ p_i = 1

Decoded(md) == read_frontmatter(p_store[md]).fm

Scanned(md) == md \in DOMAIN p_store /\ md \notin DOMAIN p_unreadable

ScanPosition(md) == CHOOSE n \in 1..Len(p_order) : p_order[n] = md

HoldsIdentity(fm, id) == Has(fm, <<"id_mslist">>) /\ Get(fm, <<"id_mslist">>) = Scalar(id)

HoldsEmail(fm, e) ==
    \E i \in 1..Len(fm) :
        /\ Contains(norm_key_for_match(fm[i].k), <<"m", "a", "i", "l">>)
        /\ IF IsList(fm[i].v)
           THEN \E j \in 1..Len(fm[i].v.items) : Lower(Strip(fm[i].v.items[j])) = e
           ELSE Lower(Strip(Str(fm[i].v))) = e

----------------------------------------------------------------------------
(* C22: if reading a document fails while the indexes are built, that      *)
(* document contributes no entry to either index, the scan goes on over    *)
(* the remaining documents, and the run proceeds to process every record.  *)
SomeReadFails == DOMAIN p_store \cap DOMAIN p_unreadable # {}

IndexedKeys ==
    {<<"id", id>> : id \in DOMAIN p_by_id} \cup {<<"mail", e>> : e \in DOMAIN p_by_email}

C22_ReadFailureNonFatal ==
    SomeReadFails =>
        /\ p_exit # 1
        /\ p_exit = 0 => Len(p_log) = Len(p_rows)
        /\ JustIndexed =>
              /\ \A id \in DOMAIN p_by_id : p_by_id[id] \notin DOMAIN p_unreadable
              /\ \A e \in DOMAIN p_by_email : p_by_email[e] \notin DOMAIN p_unreadable
              /\ \A md \in DOMAIN p_store \ DOMAIN p_unreadable :
                    DocKeys(p_store[md]) \subseteq IndexedKeys

----------------------------------------------------------------------------
(* C23: with an identity prefix configured and the fallback raw, a record  *)
(* whose raw source identity is non-empty and not numeric receives the     *)
(* identity '<PREFIX>-<raw identity verbatim>'; a record whose raw source  *)
(* identity is empty receives no composed identity, is not skipped, and is *)
(* matched by its primary e-mail address or else created.                  *)
RawFallback == p_args.id_prefix # <<>> /\ p_args.id_fallback = "raw"

\* the record the step processed, as the log has it
Logged == p_log'[Len(p_log')]

StepKeepsRawIdentity ==
    (/\ RawSourceId # <<>> /\ ~DecimalDigits(RawSourceId)
     /\ Logged.action # "SKIPPED") =>
        Logged.unique_id = SanitizedPrefix \o <<"-">> \o RawSourceId

StepWithoutIdentity ==
    (RawSourceId = <<>> /\ ~AllRequiredEmpty) =>
        /\ Logged.action # "SKIPPED"
        /\ Logged.unique_id = <<>>
        /\ IF Logged.email_lc # <<>> /\ Logged.email_lc \in DOMAIN p_by_email
           THEN Logged.action = "UPDATED" /\ Logged.target = p_by_email[Logged.email_lc]
           ELSE Logged.action = "CREATED"

C23_RawFallback ==
    [][(RecordStep /\ RawFallback) => (StepKeepsRawIdentity /\ StepWithoutIdentity)]_vars

----------------------------------------------------------------------------
(* C24: for any identity key name K given as a run parameter, the by-id    *)
(* index is keyed on the existing documents' value of field K, so that a   *)
(* record whose K value equals the K value stored in an existing document  *)
(* is matched to that document by identity.                                *)
\* the value of field K in the decoded metadata of an existing document
StoredKeyValue(md) == FieldText(Decoded(md), p_args.id_key)

\* the scanned documents that hold v in field K
HoldersOf(v) == {md \in DOMAIN p_store : Scanned(md) /\ StoredKeyValue(md) = v}

\* the first record of a run: the store is still the one the index was
\* built from
FirstRecordStep == RecordStep /\ JustIndexed

StepMatchesByKey ==
    /\ \A md \in DOMAIN p_store :
          (Scanned(md) /\ StoredKeyValue(md) # <<>>) => StoredKeyValue(md) \in DOMAIN p_by_id
    /\ (Logged.action # "SKIPPED" /\ HoldersOf(Logged.unique_id) # {} /\ Logged.unique_id # <<>>)
          => (Logged.action = "UPDATED" /\ Logged.target \in HoldersOf(Logged.unique_id))

C24_ConfigurableKey == [][FirstRecordStep => StepMatchesByKey]_vars

----------------------------------------------------------------------------
(* C26: at the end of every completed run, created + updated + skipped     *)
(* equals the number of input records, each record having contributed to   *)
(* exactly one counter; in write mode the created count equals the number  *)
(* of documents actually added to the store during the run.                *)
Counted == p_created + p_updated + p_skipped

\* the step ends a run that went through all its records
RunEnds == p_pc = "rows" /\ p_pc' = "idle"

\* the store as the run found it
StoreAtStart == IF p_snaps = <<>> THEN p_store0 ELSE p_snaps[Len(p_snaps)]

StepCountsOnce ==
    /\ Counted' = Counted + 1
    /\ p_created' >= p_created /\ p_updated' >= p_updated /\ p_skipped' >= p_skipped

RunAccounted ==
    /\ Counted = Len(p_rows)
    /\ ~p_args.dry_run =>
          p_created = Cardinality(DOMAIN p_store \ DOMAIN StoreAtStart)

C26_OutcomeAccounting ==
    [][(RecordStep => StepCountsOnce) /\ (RunEnds => RunAccounted)]_vars

----------------------------------------------------------------------------
(* C27: within one run with a prefix and the seq fallback, an identity     *)
(* allocated from the sequence counter for a record without a numeric      *)
(* source identity is never equal to the identity composed for another     *)
(* record of the same run from its numeric source identity.                *)
\* the raw source identity of the n-th record of the run
SourceIdOf(n) == Strip(FieldText(build_contact(p_rows[n], p_cfg), <<"id_mslist">>))

\* the records processed so far that took their identity from the counter,
\* and those whose identity was composed from a numeric source identity
FromCounter == {n \in 1..Len(p_log) : p_log[n].action # "SKIPPED" /\ ~DecimalDigits(SourceIdOf(n))}
FromSource == {n \in 1..Len(p_log) : p_log[n].action # "SKIPPED" /\ DecimalDigits(SourceIdOf(n))}

C27_NoIdentityClash ==
    (p_args.id_prefix # <<>> /\ p_args.id_fallback = "seq") =>
        \A m \in FromCounter : \A n \in FromSource : p_log[m].unique_id # p_log[n].unique_id

----------------------------------------------------------------------------
(* C28: after any run, every document that held a non-empty identity       *)
(* before the run still holds the same identity, documents updated because *)
(* a record matched them by e-mail address only included.  (Checked for    *)
(* the runs none of whose writes failed.)                                  *)
IdentityIn(text) == FieldText(read_frontmatter(text).fm, <<"id_mslist">>)

NoWriteFailed == \A n \in 1..Len(p_log) : p_log[n].written \in {"ok", "none"}

IdentitiesKept ==
    \A md \in DOMAIN StoreAtStart :
        IdentityIn(StoreAtStart[md]) # <<>> =>
            md \in DOMAIN p_store /\ IdentityIn(p_store[md]) = IdentityIn(StoreAtStart[md])

C28_IdentityStable == [][(RunEnds /\ NoWriteFailed) => IdentitiesKept]_vars

----------------------------------------------------------------------------
(* C29: for the same store, input and configuration, a preview run reports *)
(* for every record the same outcome (CREATED / UPDATED / SKIPPED) and the *)
(* same target document name that a write-mode run produces for that       *)
(* record, also when several new records of the run derive the same file   *)
(* name.  (Checked for the write-mode runs none of whose writes failed.)   *)
\* the run that ends is a write-mode run on the store the preview saw
RealRunAfterPreview == RunEnds /\ p_preview # <<>> /\ StoreAtStart = p_store0

SameReport ==
    /\ Len(p_log) = Len(p_preview[1])
    /\ \A n \in 1..Len(p_log) :
          /\ p_log[n].action = p_preview[1][n].action
          /\ p_log[n].target = p_preview[1][n].target

C29_PreviewFidelity == [][(RealRunAfterPreview /\ NoWriteFailed) => SameReport]_vars
====
